---------------------------- MODULE Spec2Model ----------------------------
(***************************************************************************)
(* Model of the biquad filter engine of audio-filter-mlir: the BiQuad      *)
(* unit (src/src/biquad.c), the HPF / LPF / parametric designers and       *)
(* channel dispatchers (src/src/hpf.c, lpf.c, parametric.c) and the        *)
(* JIT-backed buffer kernel they use when built with USE_MLIR              *)
(* (src/src/mlir_biquad.cpp).                                              *)
(*                                                                         *)
(* Numbers.  A C double is modelled as a decimal fixed-point number: the   *)
(* integer n stands for n / One.  Sums are exact, every product and        *)
(* quotient is rounded to the grid (as binary64 rounds each operation to   *)
(* its own grid).  Coefficients are plain numbers on that grid.  Samples   *)
(* and delay values are measured in units of FLT_MIN_PLUS: the recurrence  *)
(* is linear in the samples, so the unit only matters to the denormal      *)
(* clamp, whose thresholds are then +1.0 and -1.0.                         *)
(***************************************************************************)
EXTENDS Integers, Sequences, FiniteSets, TLC

\* ------------------------------------------------------------------ bounds
\* longest sample array handed to process_buffer / process_channel
MaxLen == 4
\* largest channel count of a buffer
MaxChannels == 3
\* most biquad_process, biquad_init and biquad_flush_delays calls made on
\* the units directly between two designs of the same filter
MaxEvals == 3
\* most recurrence evaluations a filter has made, the present call
\* included, when a dispatcher is called on a filter that is not fresh
MaxFollow == 2
\* most direct coefficient writes by the caller between two designs
MaxPokes == 1

\* ---------------------------------------------------------------- pointers
\* A pointer is a sequence: the empty one is the null pointer, <<x>> points
\* to an object whose current value is x.
NULL == << >>

\* &x
Addr(x) == << x >>

\* *p for a non-null p
Deref(p) == p[1]

\* ----------------------------------------------------------------- numbers
\* the double 1.0
One == 1000

Abs(n) == IF n < 0 THEN -n ELSE n

\* n / d rounded to the nearest integer, ties away from zero (d > 0)
RoundDiv(n, d) ==
  IF n >= 0 THEN (2 * n + d) \div (2 * d)
            ELSE -((2 * (-n) + d) \div (2 * d))

\* the double product a * b
Mul(a, b) == RoundDiv(a * b, One)

\* the double quotient a / b  (b # 0)
Div(a, b) == IF b > 0 THEN RoundDiv(a * One, b) ELSE RoundDiv(-(a * One), -b)

\* sqrt(2.0) = 1.4142...
Sqrt2 == RoundDiv(14142 * One, 10000)

\* tan(M_PI * freq / sample_rate) at the eighths and twelfths of the sample
\* rate below Nyquist: tan(pi/12) = 0.2679, tan(pi/8) = 0.4142,
\* tan(pi/6) = 0.5774, tan(pi/4) = 1.0, tan(pi/3) = 1.7321,
\* tan(3pi/8) = 2.4142, tan(5pi/12) = 3.7321
TanPi(freq, sample_rate) ==
  CASE 12 * freq = sample_rate     -> RoundDiv(2679 * One, 10000)
    [] 8 * freq = sample_rate      -> RoundDiv(4142 * One, 10000)
    [] 6 * freq = sample_rate      -> RoundDiv(5774 * One, 10000)
    [] 4 * freq = sample_rate      -> One
    [] 3 * freq = sample_rate      -> RoundDiv(17321 * One, 10000)
    [] 8 * freq = 3 * sample_rate  -> RoundDiv(24142 * One, 10000)
    [] 12 * freq = 5 * sample_rate -> RoundDiv(37321 * One, 10000)

\* pow(10.0, gain / 20.0) for gain (in dB) of -6, 0, +6:
\* 10^-0.3 = 0.5012, 10^0 = 1.0, 10^0.3 = 1.9953
Pow10Db(gain) ==
  CASE gain = -6 -> RoundDiv(5012 * One, 10000)
    [] gain = 0  -> One
    [] gain = 6  -> RoundDiv(19953 * One, 10000)

\* ------------------------------------------------------------- biquad unit
\* min positive / min negative value; samples are in units of FLT_MIN_PLUS
FLT_MIN_PLUS == One
FLT_MIN_MINUS == -One

\* the coefficient fields and the delay fields of typedef struct BiQuad
CoefFields == {"a0", "a1", "a2", "b1", "b2", "c0", "d0"}

DelayFields == {"xz1", "xz2", "yz1", "yz2"}

\* biquad_flush_delays clearing the input delays only
biquad_flush_delays_InputsOnly(bq) ==
  IF bq = NULL
    THEN NULL
    ELSE Addr([Deref(bq) EXCEPT !.xz1 = 0, !.xz2 = 0])

\* void biquad_flush_delays(BiQuad *bq): the unit after the call
biquad_flush_delays(bq) ==
  IF bq = NULL
    THEN NULL
    ELSE Addr([Deref(bq) EXCEPT !.xz1 = 0, !.xz2 = 0, !.yz1 = 0, !.yz2 = 0])

\* biquad_init without its final biquad_flush_delays call
biquad_init_NoFlush(bq) ==
  IF bq = NULL
    THEN NULL
    ELSE Addr([Deref(bq) EXCEPT !.a0 = 0, !.a1 = 0, !.a2 = 0, !.b1 = 0,
                                !.b2 = 0, !.c0 = One, !.d0 = 0])

\* void biquad_init(BiQuad *bq): the unit after the call
biquad_init(bq) ==
  IF bq = NULL
    THEN NULL
    ELSE biquad_flush_delays(
           Addr([Deref(bq) EXCEPT !.a0 = 0, !.a1 = 0, !.a2 = 0, !.b1 = 0,
                                  !.b2 = 0, !.c0 = One, !.d0 = 0]))

\* the difference equation with the first feedback term added instead of
\* subtracted
DifferenceEquation_FeedbackAdded(bq, input) ==
  Mul(bq.a0, input) + Mul(bq.a1, bq.xz1) + Mul(bq.a2, bq.xz2)
    + Mul(bq.b1, bq.yz1) - Mul(bq.b2, bq.yz2)

\* the difference equation with a1 applied to x(n-2)
DifferenceEquation_A1OnXz2(bq, input) ==
  Mul(bq.a0, input) + Mul(bq.a1, bq.xz2) + Mul(bq.a2, bq.xz2)
    - Mul(bq.b1, bq.yz1) - Mul(bq.b2, bq.yz2)

\* the difference equation of biquad_process, before the underflow check
DifferenceEquation(bq, input) ==
  Mul(bq.a0, input) + Mul(bq.a1, bq.xz1) + Mul(bq.a2, bq.xz2)
    - Mul(bq.b1, bq.yz1) - Mul(bq.b2, bq.yz2)

\* the underflow check with the two limits themselves taken for denormal
Underflow_Inclusive(yn) ==
  LET y1 == IF yn > 0 /\ yn <= FLT_MIN_PLUS THEN 0 ELSE yn
  IN  IF y1 < 0 /\ y1 >= FLT_MIN_MINUS THEN 0 ELSE y1

\* the underflow check of biquad_process
Underflow(yn) ==
  LET y1 == IF yn > 0 /\ yn < FLT_MIN_PLUS THEN 0 ELSE yn
  IN  IF y1 < 0 /\ y1 > FLT_MIN_MINUS THEN 0 ELSE y1

\* biquad_process with the two output delays shifted in the wrong order:
\* yz1 = yn first, then yz2 = yz1
biquad_process_ShiftAfterStore(bq, input) ==
  IF bq = NULL
    THEN [bq |-> NULL, yn |-> input]
    ELSE LET b  == Deref(bq)
             yn == Underflow(DifferenceEquation(b, input))
         IN  [bq |-> Addr([b EXCEPT !.yz2 = yn, !.yz1 = yn,
                                    !.xz2 = b.xz1, !.xz1 = input]),
              yn |-> yn]

\* double biquad_process(BiQuad *bq, double input): the unit after the call
\* and the value returned
biquad_process(bq, input) ==
  IF bq = NULL
    THEN [bq |-> NULL, yn |-> input]
    ELSE LET b  == Deref(bq)
             yn == Underflow(DifferenceEquation(b, input))
         IN  [bq |-> Addr([b EXCEPT !.yz2 = b.yz1, !.yz1 = yn,
                                    !.xz2 = b.xz1, !.xz1 = input]),
              yn |-> yn]

\* --------------------------------------------------------------- designers
\* the high-pass designer leaving the wet/dry mix as it finds it
hpf_calculate_butterworth_coefficients_KeepsMix(bq, sample_rate, freq) ==
  IF bq = NULL
    THEN NULL
    ELSE LET C         == TanPi(freq, sample_rate)
             C_squared == Mul(C, C)
             sqrt2     == Sqrt2
             a0        == Div(One, One + Mul(sqrt2, C) + C_squared)
         IN  biquad_flush_delays(
               Addr([Deref(bq) EXCEPT
                       !.a0 = a0,
                       !.a1 = Mul(-2 * One, a0),
                       !.a2 = a0,
                       !.b1 = Mul(Mul(2 * One, a0), C_squared - One),
                       !.b2 = Mul(a0, One - Mul(sqrt2, C) + C_squared)]))

\* calculate_butterworth_coefficients of hpf.c
hpf_calculate_butterworth_coefficients(bq, sample_rate, freq) ==
  IF bq = NULL
    THEN NULL
    ELSE LET C         == TanPi(freq, sample_rate)
             C_squared == Mul(C, C)
             sqrt2     == Sqrt2
             a0        == Div(One, One + Mul(sqrt2, C) + C_squared)
         IN  biquad_flush_delays(
               Addr([Deref(bq) EXCEPT
                       !.a0 = a0,
                       !.a1 = Mul(-2 * One, a0),
                       !.a2 = a0,
                       !.b1 = Mul(Mul(2 * One, a0), C_squared - One),
                       !.b2 = Mul(a0, One - Mul(sqrt2, C) + C_squared),
                       !.c0 = One,
                       !.d0 = 0]))

\* calculate_butterworth_coefficients of lpf.c
lpf_calculate_butterworth_coefficients(bq, sample_rate, freq) ==
  IF bq = NULL
    THEN NULL
    ELSE LET C         == Div(One, TanPi(freq, sample_rate))
             C_squared == Mul(C, C)
             sqrt2     == Sqrt2
             a0        == Div(One, One + Mul(sqrt2, C) + C_squared)
         IN  biquad_flush_delays(
               Addr([Deref(bq) EXCEPT
                       !.a0 = a0,
                       !.a1 = Mul(2 * One, a0),
                       !.a2 = a0,
                       !.b1 = Mul(Mul(2 * One, a0), One - C_squared),
                       !.b2 = Mul(a0, One - Mul(sqrt2, C) + C_squared),
                       !.c0 = One,
                       !.d0 = 0]))

\* calculate_parametric_coefficients without its final
\* biquad_flush_delays call
calculate_parametric_coefficients_NoFlush(bq, sample_rate, freq, gain, q) ==
  IF bq = NULL
    THEN NULL
    ELSE LET K         == TanPi(freq, sample_rate)
             V0        == Pow10Db(gain)
             K_squared == Mul(K, K)
             D0 == One + Mul(Div(One, q), K) + K_squared
             E0 == One + Mul(Div(One, Mul(V0, q)), K) + K_squared
             A  == One + Mul(Div(V0, q), K) + K_squared
             B  == Mul(2 * One, K_squared - One)
             G  == One - Mul(Div(V0, q), K) + K_squared
             D  == One - Mul(Div(One, q), K) + K_squared
             E  == One - Mul(Div(One, Mul(V0, q)), K) + K_squared
             co == IF gain >= 0
                     THEN [a0 |-> Div(A, D0), a1 |-> Div(B, D0),
                           a2 |-> Div(G, D0), b1 |-> Div(B, D0),
                           b2 |-> Div(D, D0)]
                     ELSE [a0 |-> Div(D0, E0), a1 |-> Div(B, E0),
                           a2 |-> Div(D, E0), b1 |-> Div(B, E0),
                           b2 |-> Div(E, E0)]
         IN  Addr([Deref(bq) EXCEPT
                     !.a0 = co.a0, !.a1 = co.a1, !.a2 = co.a2,
                     !.b1 = co.b1, !.b2 = co.b2,
                     !.c0 = One, !.d0 = 0])

\* the intermediate values D0, E0, A, B, G, D, E of the parametric designer
\* with E computed with the sign of E0
Intermediates_EWithPlus(K, V0, q) ==
  LET K_squared == Mul(K, K)
  IN  [D0 |-> One + Mul(Div(One, q), K) + K_squared,
       E0 |-> One + Mul(Div(One, Mul(V0, q)), K) + K_squared,
       A  |-> One + Mul(Div(V0, q), K) + K_squared,
       B  |-> Mul(2 * One, K_squared - One),
       G  |-> One - Mul(Div(V0, q), K) + K_squared,
       D  |-> One - Mul(Div(One, q), K) + K_squared,
       E  |-> One + Mul(Div(One, Mul(V0, q)), K) + K_squared]

\* the intermediate values D0, E0, A, B, G, D, E of the parametric designer
Intermediates(K, V0, q) ==
  LET K_squared == Mul(K, K)
  IN  [D0 |-> One + Mul(Div(One, q), K) + K_squared,
       E0 |-> One + Mul(Div(One, Mul(V0, q)), K) + K_squared,
       A  |-> One + Mul(Div(V0, q), K) + K_squared,
       B  |-> Mul(2 * One, K_squared - One),
       G  |-> One - Mul(Div(V0, q), K) + K_squared,
       D  |-> One - Mul(Div(One, q), K) + K_squared,
       E  |-> One - Mul(Div(One, Mul(V0, q)), K) + K_squared]

\* the boost branch with a2 computed from A
Boost_A2FromA(m) ==
  [a0 |-> Div(m.A, m.D0), a1 |-> Div(m.B, m.D0), a2 |-> Div(m.A, m.D0),
   b1 |-> Div(m.B, m.D0), b2 |-> Div(m.D, m.D0)]

\* the coefficients of the boost branch (gain >= 0.0)
Boost(m) ==
  [a0 |-> Div(m.A, m.D0), a1 |-> Div(m.B, m.D0), a2 |-> Div(m.G, m.D0),
   b1 |-> Div(m.B, m.D0), b2 |-> Div(m.D, m.D0)]

\* the coefficients of the cut branch (gain < 0.0)
Cut(m) ==
  [a0 |-> Div(m.D0, m.E0), a1 |-> Div(m.B, m.E0), a2 |-> Div(m.D, m.E0),
   b1 |-> Div(m.B, m.E0), b2 |-> Div(m.E, m.E0)]

\* calculate_parametric_coefficients of parametric.c
calculate_parametric_coefficients(bq, sample_rate, freq, gain, q) ==
  IF bq = NULL
    THEN NULL
    ELSE LET K  == TanPi(freq, sample_rate)
             V0 == Pow10Db(gain)
             m  == Intermediates(K, V0, q)
             co == IF gain >= 0 THEN Boost(m) ELSE Cut(m)
         IN  biquad_flush_delays(
               Addr([Deref(bq) EXCEPT
                       !.a0 = co.a0, !.a1 = co.a1, !.a2 = co.a2,
                       !.b1 = co.b1, !.b2 = co.b2,
                       !.c0 = One, !.d0 = 0]))

\* --------------------------------------------------------- filter instance
\* what mlir_biquad_jit_create can return: nullptr on any failure, else a
\* context whose process_fn is set and whose process_buffer_fn is set unless
\* the lookup of biquad_process_buffer failed
JitOutcomes ==
  {NULL,
   Addr([process_fn |-> TRUE, process_buffer_fn |-> FALSE]),
   Addr([process_fn |-> TRUE, process_buffer_fn |-> TRUE])}

\* the results of the two mlir_biquad_jit_create calls of one design call
\* (left, right).  The fields and the calls exist only when the library is
\* built with USE_MLIR.  Both calls run the same pipeline in the same
\* process, so they fail or succeed alike.
JitCreate(use_mlir) ==
  IF use_mlir THEN {<<j, j>> : j \in JitOutcomes} ELSE {<<NULL, NULL>>}

Lanes == {"left", "right"}

\* void hpf_init(HPFFilter *hpf, double sample_rate, double freq); jl and jr
\* are the results of the two mlir_biquad_jit_create calls
hpf_init(hpf, sample_rate, freq, jl, jr) ==
  IF hpf = NULL
    THEN NULL
    ELSE LET h == Deref(hpf)
         IN  Addr([h EXCEPT
               !.left = Deref(hpf_calculate_butterworth_coefficients(
                          biquad_init(Addr(h.left)), sample_rate, freq)),
               !.right = Deref(hpf_calculate_butterworth_coefficients(
                           biquad_init(Addr(h.right)), sample_rate, freq)),
               !.frequency = freq,
               !.left_jit = jl,
               !.right_jit = jr])

\* void hpf_update_coefficients(HPFFilter *hpf, double sample_rate,
\* double freq); a context is re-created only where one exists
hpf_update_coefficients(hpf, sample_rate, freq, jl, jr) ==
  IF hpf = NULL
    THEN NULL
    ELSE LET h == Deref(hpf)
         IN  Addr([h EXCEPT
               !.left = Deref(hpf_calculate_butterworth_coefficients(
                          Addr(h.left), sample_rate, freq)),
               !.right = Deref(hpf_calculate_butterworth_coefficients(
                           Addr(h.right), sample_rate, freq)),
               !.frequency = freq,
               !.left_jit = IF h.left_jit # NULL THEN jl ELSE NULL,
               !.right_jit = IF h.right_jit # NULL THEN jr ELSE NULL])

\* void lpf_init(LPFFilter *lpf, double sample_rate, double freq)
lpf_init(lpf, sample_rate, freq, jl, jr) ==
  IF lpf = NULL
    THEN NULL
    ELSE LET h == Deref(lpf)
         IN  Addr([h EXCEPT
               !.left = Deref(lpf_calculate_butterworth_coefficients(
                          biquad_init(Addr(h.left)), sample_rate, freq)),
               !.right = Deref(lpf_calculate_butterworth_coefficients(
                           biquad_init(Addr(h.right)), sample_rate, freq)),
               !.frequency = freq,
               !.left_jit = jl,
               !.right_jit = jr])

\* void lpf_update_coefficients(LPFFilter *lpf, double sample_rate,
\* double freq)
lpf_update_coefficients(lpf, sample_rate, freq, jl, jr) ==
  IF lpf = NULL
    THEN NULL
    ELSE LET h == Deref(lpf)
         IN  Addr([h EXCEPT
               !.left = Deref(lpf_calculate_butterworth_coefficients(
                          Addr(h.left), sample_rate, freq)),
               !.right = Deref(lpf_calculate_butterworth_coefficients(
                           Addr(h.right), sample_rate, freq)),
               !.frequency = freq,
               !.left_jit = IF h.left_jit # NULL THEN jl ELSE NULL,
               !.right_jit = IF h.right_jit # NULL THEN jr ELSE NULL])

\* void parametric_init(ParametricFilter *peq, double sample_rate,
\* double freq, double gain, double q)
parametric_init(peq, sample_rate, freq, gain, q, jl, jr) ==
  IF peq = NULL
    THEN NULL
    ELSE LET h == Deref(peq)
         IN  Addr([h EXCEPT
               !.left = Deref(calculate_parametric_coefficients(
                          biquad_init(Addr(h.left)), sample_rate, freq,
                          gain, q)),
               !.right = Deref(calculate_parametric_coefficients(
                           biquad_init(Addr(h.right)), sample_rate, freq,
                           gain, q)),
               !.frequency = freq,
               !.gain = gain,
               !.q = q,
               !.left_jit = jl,
               !.right_jit = jr])

\* parametric_update_coefficients without the assignment peq->gain = gain
parametric_update_coefficients_GainNotStored(peq, sample_rate, freq, gain, q, jl, jr) ==
  IF peq = NULL
    THEN NULL
    ELSE LET h == Deref(peq)
         IN  Addr([h EXCEPT
               !.left = Deref(calculate_parametric_coefficients(
                          Addr(h.left), sample_rate, freq, gain, q)),
               !.right = Deref(calculate_parametric_coefficients(
                           Addr(h.right), sample_rate, freq, gain, q)),
               !.frequency = freq,
               !.q = q,
               !.left_jit = IF h.left_jit # NULL THEN jl ELSE NULL,
               !.right_jit = IF h.right_jit # NULL THEN jr ELSE NULL])

\* void parametric_update_coefficients(ParametricFilter *peq,
\* double sample_rate, double freq, double gain, double q)
parametric_update_coefficients(peq, sample_rate, freq, gain, q, jl, jr) ==
  IF peq = NULL
    THEN NULL
    ELSE LET h == Deref(peq)
         IN  Addr([h EXCEPT
               !.left = Deref(calculate_parametric_coefficients(
                          Addr(h.left), sample_rate, freq, gain, q)),
               !.right = Deref(calculate_parametric_coefficients(
                           Addr(h.right), sample_rate, freq, gain, q)),
               !.frequency = freq,
               !.gain = gain,
               !.q = q,
               !.left_jit = IF h.left_jit # NULL THEN jl ELSE NULL,
               !.right_jit = IF h.right_jit # NULL THEN jr ELSE NULL])

\* X_init (op = "init") or X_update_coefficients of the filter type kind,
\* built without USE_MLIR, called on the instance f with the arguments args
DesignCall(kind, op, f, args) ==
  CASE kind = "hpf" /\ op = "init" ->
         hpf_init(Addr(f), args[1], args[2], NULL, NULL)
    [] kind = "hpf" /\ op # "init" ->
         hpf_update_coefficients(Addr(f), args[1], args[2], NULL, NULL)
    [] kind = "lpf" /\ op = "init" ->
         lpf_init(Addr(f), args[1], args[2], NULL, NULL)
    [] kind = "lpf" /\ op # "init" ->
         lpf_update_coefficients(Addr(f), args[1], args[2], NULL, NULL)
    [] kind = "peq" /\ op = "init" ->
         parametric_init(Addr(f), args[1], args[2], args[3], args[4],
                         NULL, NULL)
    [] kind = "peq" /\ op # "init" ->
         parametric_update_coefficients(Addr(f), args[1], args[2], args[3],
                                        args[4], NULL, NULL)

\* ------------------------------------------------------------- JIT kernels
\* the function biquad_process built by createBiQuadModule
jit_biquad_process(a0, a1, a2, b1, b2, input, xz1, xz2, yz1, yz2) ==
  LET t1 == Mul(a0, input)
      t2 == Mul(a1, xz1)
      t3 == Mul(a2, xz2)
      t4 == Mul(b1, yz1)
      t5 == Mul(b2, yz2)
      s1 == t1 + t2
      s2 == s1 + t3
      s3 == s2 - t4
  IN  s3 - t5

\* one recurrence evaluation as the traces below record it: the function
\* that evaluated, the lane it ran on, the array index of the sample, the
\* sample, the value the evaluation produced and the value written back
Evaluation(fn, lane, idx, input, yn, out) ==
  [fn |-> fn, lane |-> lane, idx |-> idx, input |-> input, yn |-> yn,
   out |-> out]

\* the scf.for loop of the function biquad_process_buffer built by
\* addBufferProcessFunction; st.bq carries the loop's iter_args in its delay
\* fields, st.data is the array both read and written
RECURSIVE jit_biquad_process_buffer(_, _, _)
jit_biquad_process_buffer(st, i, length) ==
  IF i < length
    THEN LET input == st.data[i + 1]
             bq    == st.bq
             yn    == jit_biquad_process(bq.a0, bq.a1, bq.a2, bq.b1, bq.b2,
                                         input, bq.xz1, bq.xz2, bq.yz1,
                                         bq.yz2)
         IN  jit_biquad_process_buffer(
               [bq    |-> [bq EXCEPT !.xz1 = input, !.xz2 = bq.xz1,
                                     !.yz1 = yn, !.yz2 = bq.yz1],
                data  |-> [st.data EXCEPT ![i + 1] = yn],
                evals |-> Append(st.evals,
                            Evaluation("process_buffer_fn", "", i, input,
                                       yn, yn))],
               i + 1, length)
    ELSE st

\* double mlir_biquad_process(MLIRBiQuadJIT *jit, BiQuad *bq, double input):
\* the unit after the call and the value returned
mlir_biquad_process(jit, bq, input) ==
  IF jit = NULL \/ bq = NULL
    THEN [bq |-> bq, yn |-> 0]
    ELSE IF ~Deref(jit).process_fn
      THEN [bq |-> bq, yn |-> 0]
      ELSE LET b  == Deref(bq)
               yn == jit_biquad_process(b.a0, b.a1, b.a2, b.b1, b.b2,
                                        input, b.xz1, b.xz2, b.yz1, b.yz2)
           IN  [bq |-> Addr([b EXCEPT !.xz2 = b.xz1, !.xz1 = input,
                                      !.yz2 = b.yz1, !.yz1 = yn]),
                yn |-> Underflow(yn)]

\* the per-sample fallback loop of mlir_biquad_process_buffer
RECURSIVE MlirFallbackLoop(_, _, _, _)
MlirFallbackLoop(jit, st, i, length) ==
  IF i < length
    THEN LET input == st.data[i + 1]
             r     == mlir_biquad_process(jit, Addr(st.bq), input)
         IN  MlirFallbackLoop(jit,
               [bq    |-> Deref(r.bq),
                data  |-> [st.data EXCEPT ![i + 1] = r.yn],
                evals |-> Append(st.evals,
                            Evaluation("process_fn", "", i, input,
                                       Deref(r.bq).yz1, r.yn))],
               i + 1, length)
    ELSE st

\* void mlir_biquad_process_buffer(MLIRBiQuadJIT *jit, BiQuad *bq,
\* const double *input, double *output, size_t length), called in place
\* (output = input = data): the unit, the array and the trace after the call
mlir_biquad_process_buffer(jit, bq, data, length) ==
  IF jit = NULL \/ bq = NULL \/ data = NULL
    THEN [bq |-> bq, data |-> data, evals |-> << >>]
    ELSE LET st == [bq |-> Deref(bq), data |-> Deref(data), evals |-> << >>]
             r  == IF Deref(jit).process_buffer_fn
                     THEN LET k == jit_biquad_process_buffer(st, 0, length)
                          IN  [k EXCEPT !.bq.yz1 = Underflow(k.bq.yz1)]
                     ELSE MlirFallbackLoop(jit, st, 0, length)
         IN  [bq |-> Addr(r.bq), data |-> Addr(r.data), evals |-> r.evals]

\* the reference the accelerated kernels are compared with: biquad_process
\* called on every sample of the array in order, each result written to the
\* output array
RECURSIVE ScalarReference(_, _, _)
ScalarReference(st, i, length) ==
  IF i < length
    THEN LET input == st.data[i + 1]
             r     == biquad_process(Addr(st.bq), input)
         IN  ScalarReference(
               [bq    |-> Deref(r.bq),
                data  |-> [st.data EXCEPT ![i + 1] = r.yn],
                evals |-> Append(st.evals,
                            Evaluation("biquad_process", "", i, input,
                                       r.yn, r.yn))],
               i + 1, length)
    ELSE st

\* ------------------------------------------------------ channel dispatcher
\* the loop body leaving the sample it has read in the unit's dry gain
ProcessSample_WritesDry(st, lane, i) ==
  LET input  == st.data[i + 1]
      r      == biquad_process(Addr(st.f[lane]), input)
      filter == Deref(r.bq)
      out    == Mul(r.yn, filter.c0) + Mul(input, filter.d0)
  IN  [f     |-> [st.f EXCEPT ![lane] = [filter EXCEPT !.d0 = input]],
       data  |-> [st.data EXCEPT ![i + 1] = out],
       evals |-> Append(st.evals,
                   Evaluation("biquad_process", lane, i, input, r.yn, out))]

\* a loop body of the scalar dispatchers: biquad_process on data[i] through
\* one lane, then data[i] = filtered * filter->c0 + input * filter->d0
ProcessSample(st, lane, i) ==
  LET input  == st.data[i + 1]
      r      == biquad_process(Addr(st.f[lane]), input)
      filter == Deref(r.bq)
      out    == Mul(r.yn, filter.c0) + Mul(input, filter.d0)
  IN  [f     |-> [st.f EXCEPT ![lane] = filter],
       data  |-> [st.data EXCEPT ![i + 1] = out],
       evals |-> Append(st.evals,
                   Evaluation("biquad_process", lane, i, input, r.yn, out))]

\* the for loop of hpf_process_channel
RECURSIVE ChannelLoop(_, _, _, _)
ChannelLoop(st, lane, i, length) ==
  IF i < length
    THEN ChannelLoop(ProcessSample(st, lane, i), lane, i + 1, length)
    ELSE st

\* what a dispatcher leaves behind: the filter, the sample array and the
\* trace of the recurrence evaluations it made
Outcome(hpf, data, evals) == [hpf |-> hpf, data |-> data, evals |-> evals]

OutcomeOf(st) == Outcome(Addr(st.f), Addr(st.data), st.evals)

\* process_channel taking channel 1 for the right unit and every other
\* channel for the left
hpf_process_channel_OnlyOneIsRight(hpf, data, length, channel) ==
  IF hpf = NULL \/ data = NULL
    THEN Outcome(hpf, data, << >>)
    ELSE OutcomeOf(
           ChannelLoop([f |-> Deref(hpf), data |-> Deref(data),
                        evals |-> << >>],
                       IF channel = 1 THEN "right" ELSE "left", 0, length))

\* process_channel flushing the selected unit's delays when it is handed no
\* array
hpf_process_channel_FlushWithoutData(hpf, data, length, channel) ==
  IF hpf = NULL
    THEN Outcome(hpf, data, << >>)
    ELSE IF data = NULL
      THEN LET lane == IF channel = 0 THEN "left" ELSE "right"
               h    == Deref(hpf)
           IN  Outcome(Addr([h EXCEPT ![lane] =
                               Deref(biquad_flush_delays(Addr(h[lane])))]),
                       data, << >>)
      ELSE OutcomeOf(
             ChannelLoop([f |-> Deref(hpf), data |-> Deref(data),
                          evals |-> << >>],
                         IF channel = 0 THEN "left" ELSE "right", 0, length))

\* void hpf_process_channel(HPFFilter *hpf, double *data, size_t length,
\* int channel)
hpf_process_channel(hpf, data, length, channel) ==
  IF hpf = NULL \/ data = NULL
    THEN Outcome(hpf, data, << >>)
    ELSE OutcomeOf(
           ChannelLoop([f |-> Deref(hpf), data |-> Deref(data),
                        evals |-> << >>],
                       IF channel = 0 THEN "left" ELSE "right", 0, length))

\* the stereo loop with the two lanes exchanged
RECURSIVE StereoLoop_LanesSwapped(_, _, _)
StereoLoop_LanesSwapped(st, i, length) ==
  IF i < length
    THEN LET s1 == ProcessSample(st, "right", i)
             s2 == IF i + 1 < length THEN ProcessSample(s1, "left", i + 1)
                                     ELSE s1
         IN  StereoLoop_LanesSwapped(s2, i + 2, length)
    ELSE st

\* the stereo loop with the right sample also passed through the left unit
RECURSIVE StereoLoop_RightThroughLeft(_, _, _)
StereoLoop_RightThroughLeft(st, i, length) ==
  IF i < length
    THEN LET s1 == ProcessSample(st, "left", i)
             s2 == IF i + 1 < length THEN ProcessSample(s1, "left", i + 1)
                                     ELSE s1
         IN  StereoLoop_RightThroughLeft(s2, i + 2, length)
    ELSE st

\* the stereo loop of hpf_process_buffer: for (i = 0; i < length; i += 2)
RECURSIVE StereoLoop(_, _, _)
StereoLoop(st, i, length) ==
  IF i < length
    THEN LET s1 == ProcessSample(st, "left", i)
             s2 == IF i + 1 < length THEN ProcessSample(s1, "right", i + 1)
                                     ELSE s1
         IN  StereoLoop(s2, i + 2, length)
    ELSE st

\* the multi-channel loop choosing the lane by the parity of the sample
\* index instead of the parity of the channel index
RECURSIVE MultiLoop_ParityOfIndex(_, _, _, _)
MultiLoop_ParityOfIndex(st, i, length, channels) ==
  IF i < length
    THEN LET lane == IF i % 2 = 0 THEN "left" ELSE "right"
         IN  MultiLoop_ParityOfIndex(ProcessSample(st, lane, i), i + 1,
                                     length, channels)
    ELSE st

\* the multi-channel loop of hpf_process_buffer
RECURSIVE MultiLoop(_, _, _, _)
MultiLoop(st, i, length, channels) ==
  IF i < length
    THEN LET channel == i % channels
             lane    == IF channel % 2 = 0 THEN "left" ELSE "right"
         IN  MultiLoop(ProcessSample(st, lane, i), i + 1, length, channels)
    ELSE st

\* the standard C implementation flushing both units' delays before the
\* first sample of every buffer
ScalarDispatch_FlushFirst(hpf, buffer) ==
  LET h  == Deref(hpf)
      st == [f |-> [h EXCEPT
                      !.left = Deref(biquad_flush_delays(Addr(h.left))),
                      !.right = Deref(biquad_flush_delays(Addr(h.right)))],
             data |-> Deref(buffer.data), evals |-> << >>]
  IN  IF buffer.channels = 1
        THEN OutcomeOf(ChannelLoop(st, "left", 0, buffer.length))
        ELSE IF buffer.channels = 2
          THEN OutcomeOf(StereoLoop(st, 0, buffer.length))
          ELSE OutcomeOf(MultiLoop(st, 0, buffer.length, buffer.channels))

\* the standard C implementation with mono buffers sent to channel 1
ScalarDispatch_MonoRight(hpf, buffer) ==
  LET st == [f |-> Deref(hpf), data |-> Deref(buffer.data), evals |-> << >>]
  IN  IF buffer.channels = 1
        THEN hpf_process_channel(hpf, buffer.data, buffer.length, 1)
        ELSE IF buffer.channels = 2
          THEN OutcomeOf(StereoLoop(st, 0, buffer.length))
          ELSE OutcomeOf(MultiLoop(st, 0, buffer.length, buffer.channels))

\* the standard C implementation at the end of hpf_process_buffer
ScalarDispatch(hpf, buffer) ==
  LET st == [f |-> Deref(hpf), data |-> Deref(buffer.data), evals |-> << >>]
  IN  IF buffer.channels = 1
        THEN hpf_process_channel(hpf, buffer.data, buffer.length, 0)
        ELSE IF buffer.channels = 2
          THEN OutcomeOf(StereoLoop(st, 0, buffer.length))
          ELSE OutcomeOf(MultiLoop(st, 0, buffer.length, buffer.channels))

\* the left (offset 0) or right (offset 1) scratch array after the
\* deinterleave loop of the USE_MLIR stereo path
Deinterleave(data, samples_per_channel, offset) ==
  [i \in 1..samples_per_channel |-> data[(i - 1) * 2 + offset + 1]]

\* a reinterleave loop that hands back the whole frames only
Reinterleave_WholeFramesOnly(data, left_channel, right_channel, samples_per_channel) ==
  [k \in 1..(2 * samples_per_channel) |->
     IF (k - 1) % 2 = 0 THEN left_channel[(k - 1) \div 2 + 1]
                        ELSE right_channel[(k - 1) \div 2 + 1]]

\* the buffer after the reinterleave loop of the USE_MLIR stereo path
Reinterleave(data, left_channel, right_channel, samples_per_channel) ==
  [k \in 1..Len(data) |->
     IF (k - 1) \div 2 < samples_per_channel
       THEN IF (k - 1) % 2 = 0 THEN left_channel[(k - 1) \div 2 + 1]
                               ELSE right_channel[(k - 1) \div 2 + 1]
       ELSE data[k]]

\* the trace of a kernel call, with the lane it served and the indices its
\* samples have in the buffer
Relabel(evals, lane, stride, offset) ==
  [k \in 1..Len(evals) |->
     [evals[k] EXCEPT !.lane = lane, !.idx = evals[k].idx * stride + offset]]

\* the USE_MLIR block of hpf_process_buffer, both contexts present, mono
MlirMono(hpf, buffer) ==
  LET h == Deref(hpf)
      r == mlir_biquad_process_buffer(h.left_jit, Addr(h.left), buffer.data,
                                      buffer.length)
  IN  Outcome(Addr([h EXCEPT !.left = Deref(r.bq)]), r.data,
              Relabel(r.evals, "left", 1, 0))

\* the USE_MLIR block of hpf_process_buffer, both contexts present, stereo,
\* both scratch arrays allocated
MlirStereo(hpf, buffer) ==
  LET h == Deref(hpf)
      samples_per_channel == buffer.length \div 2
      l == mlir_biquad_process_buffer(h.left_jit, Addr(h.left),
             Addr(Deinterleave(Deref(buffer.data), samples_per_channel, 0)),
             samples_per_channel)
      r == mlir_biquad_process_buffer(h.right_jit, Addr(h.right),
             Addr(Deinterleave(Deref(buffer.data), samples_per_channel, 1)),
             samples_per_channel)
  IN  Outcome(Addr([h EXCEPT !.left = Deref(l.bq), !.right = Deref(r.bq)]),
              Addr(Reinterleave(Deref(buffer.data), Deref(l.data),
                                Deref(r.data), samples_per_channel)),
              Relabel(l.evals, "left", 2, 0)
                \o Relabel(r.evals, "right", 2, 1))

\* void hpf_process_buffer(HPFFilter *hpf, AudioBuffer *buffer); alloc_ok
\* tells whether both malloc calls of the USE_MLIR stereo path succeed
hpf_process_buffer(hpf, buffer, alloc_ok) ==
  IF buffer = NULL
    THEN Outcome(hpf, NULL, << >>)
    ELSE IF hpf = NULL \/ Deref(buffer).data = NULL
      THEN Outcome(hpf, Deref(buffer).data, << >>)
      ELSE LET b == Deref(buffer)
               h == Deref(hpf)
           IN  IF h.left_jit # NULL /\ h.right_jit # NULL /\ b.channels = 1
                 THEN MlirMono(hpf, b)
                 ELSE IF h.left_jit # NULL /\ h.right_jit # NULL
                           /\ b.channels = 2 /\ alloc_ok
                   THEN MlirStereo(hpf, b)
                   ELSE ScalarDispatch(hpf, b)

\* lpf.c and parametric.c repeat the two dispatchers of hpf.c statement for
\* statement on their own filter types
lpf_process_channel(lpf, data, length, channel) ==
  hpf_process_channel(lpf, data, length, channel)

lpf_process_buffer(lpf, buffer, alloc_ok) ==
  hpf_process_buffer(lpf, buffer, alloc_ok)

parametric_process_channel(peq, data, length, channel) ==
  hpf_process_channel(peq, data, length, channel)

parametric_process_buffer(peq, buffer, alloc_ok) ==
  hpf_process_buffer(peq, buffer, alloc_ok)

\* ------------------------------------------------------------------ inputs
\* sample rates, cutoff / center frequencies, gains (dB) and Q factors the
\* callers of the model pass to the designers
SampleRates == {48000}

Freqs == {6000, 12000}

Gains == {-6, 0, 6}

Qs == {2 * One}

\* the sample values the callers pass: FLT_MIN_PLUS itself and a negative
\* denormal value; the filters turn them into positive denormal, normal and
\* zero values
Samples == {One, -(One \div 2)}

Arrays == UNION {[1..n -> Samples] : n \in 0..MaxLen}

\* an AudioBuffer struct around an array (or around no array)
AudioBuffer(data, channels) ==
  [data |-> data, length |-> IF data = NULL THEN 0 ELSE Len(Deref(data)),
   sample_rate |-> 48000, channels |-> channels, bit_depth |-> 16]

\* the coefficients a caller writes into a unit directly, as the unit tests
\* do: seven different values
Pokes ==
  {[a0 |-> One, a1 |-> -One, a2 |-> One \div 2, b1 |-> -(One \div 2),
    b2 |-> 2 * One, c0 |-> (3 * One) \div 2, d0 |-> -(2 * One)]}

\* ------------------------------------------------------------------- state
VARIABLES
  filter,   \* the filter instance: kind (its C type), the lanes left and
            \* right, the musical parameters, left_jit and right_jit
  call,     \* the last call made on the instance: what was passed and what
            \* came back
  hist,     \* per lane, the inputs and the outputs of the recurrence
            \* evaluations since the lane's delays were last flushed
  used,     \* what the caller did since the last design: recurrence
            \* evaluations and lane resets, coefficient writes
  disk      \* the files of the file system, by path: the content of each
            \* file, or NULL where there is none

vars == <<filter, call, hist, used, disk>>

\* the memory of a unit before anything initialised it
JunkUnit ==
  [a0 |-> 7, a1 |-> 7, a2 |-> 7, b1 |-> 7, b2 |-> 7, c0 |-> 7, d0 |-> 7,
   xz1 |-> 7, xz2 |-> 7, yz1 |-> 7, yz2 |-> 7]

\* the memory of an instance of the given type before its init call
JunkFilter(kind) ==
  [kind |-> kind, left |-> JunkUnit, right |-> JunkUnit, frequency |-> 7,
   gain |-> 0, q |-> 0, left_jit |-> NULL, right_jit |-> NULL]

NoHist == [left |-> [x |-> << >>, y |-> << >>],
           right |-> [x |-> << >>, y |-> << >>]]

Unused == [evals |-> 0, pokes |-> 0]

\* the paths the callers name
Paths == {"in.wav", "out.wav", "missing.wav"}

\* the file system of a caller that opens no file
NoDisk == [p \in Paths |-> NULL]

\* the record of a call; the fields a call does not use keep these values
NoCall ==
  [op |-> "", lane |-> "", channel |-> 0, input |-> 0, ret |-> 0,
   hpf |-> NULL, buffer |-> NULL, data |-> NULL, length |-> 0,
   out |-> NULL, evals |-> << >>, dirty |-> FALSE, args |-> << >>,
   after |-> NULL, poked |-> FALSE]

\* some delay value of the instance is not 0.0
Dirty(f) ==
  \E l \in Lanes : \E d \in DelayFields : f[l][d] # 0

\* the histories after the evaluations of a trace
RECURSIVE Record(_, _)
Record(h, evals) ==
  IF evals = << >>
    THEN h
    ELSE LET e == Head(evals)
         IN  Record([h EXCEPT ![e.lane].x = Append(@, e.input),
                              ![e.lane].y = Append(@, e.yn)],
                    Tail(evals))

\* ----------------------------------------------------------------- actions
\* the state after a design call (an init or an update_coefficients)
Designed(f, op, args) ==
  /\ filter' = f
  /\ call' = [NoCall EXCEPT !.op = op, !.dirty = Dirty(filter),
                            !.poked = used.pokes > 0, !.args = args]
  /\ hist' = NoHist
  /\ used' = Unused
  /\ UNCHANGED disk

HpfInit(use_mlir) ==
  /\ filter.kind = "hpf"
  /\ \E sr \in SampleRates, fq \in Freqs :
       \E j \in JitCreate(use_mlir) :
         Designed(Deref(hpf_init(Addr(filter), sr, fq, j[1], j[2])),
                  "init", <<sr, fq>>)

HpfUpdate(use_mlir) ==
  /\ filter.kind = "hpf"
  /\ \E sr \in SampleRates, fq \in Freqs :
       \E j \in JitCreate(use_mlir) :
         Designed(Deref(hpf_update_coefficients(Addr(filter), sr, fq,
                                                j[1], j[2])),
                  "update_coefficients", <<sr, fq>>)

LpfInit(use_mlir) ==
  /\ filter.kind = "lpf"
  /\ \E sr \in SampleRates, fq \in Freqs :
       \E j \in JitCreate(use_mlir) :
         Designed(Deref(lpf_init(Addr(filter), sr, fq, j[1], j[2])),
                  "init", <<sr, fq>>)

LpfUpdate(use_mlir) ==
  /\ filter.kind = "lpf"
  /\ \E sr \in SampleRates, fq \in Freqs :
       \E j \in JitCreate(use_mlir) :
         Designed(Deref(lpf_update_coefficients(Addr(filter), sr, fq,
                                                j[1], j[2])),
                  "update_coefficients", <<sr, fq>>)

ParametricInit(use_mlir) ==
  /\ filter.kind = "peq"
  /\ \E sr \in SampleRates, fq \in Freqs, g \in Gains, q \in Qs :
       \E j \in JitCreate(use_mlir) :
         Designed(Deref(parametric_init(Addr(filter), sr, fq, g, q, j[1], j[2])),
                  "init", <<sr, fq, g, q>>)

ParametricUpdate(use_mlir) ==
  /\ filter.kind = "peq"
  /\ \E sr \in SampleRates, fq \in Freqs, g \in Gains, q \in Qs :
       \E j \in JitCreate(use_mlir) :
         Designed(Deref(parametric_update_coefficients(
                          Addr(filter), sr, fq, g, q, j[1], j[2])),
                  "update_coefficients", <<sr, fq, g, q>>)

\* the caller assigns the coefficient fields of one lane of a freshly
\* designed filter
Poke ==
  /\ used.pokes < MaxPokes
  /\ used.evals = 0
  /\ \E lane \in Lanes, p \in Pokes :
       /\ filter' = [filter EXCEPT
                       ![lane] = [fld \in DOMAIN filter[lane] |->
                                    IF fld \in CoefFields
                                      THEN p[fld] ELSE filter[lane][fld]]]
       /\ call' = [NoCall EXCEPT !.op = "poke", !.lane = lane]
  /\ used' = [used EXCEPT !.pokes = @ + 1]
  /\ UNCHANGED <<hist, disk>>

\* the caller makes one unit a one-sample delay: biquad_init, then a0 = 0.0,
\* a1 = 1.0, a2 = b1 = b2 = 0.0
UnitDelaySetup ==
  /\ used.pokes < MaxPokes
  /\ \E lane \in Lanes :
       /\ filter' = [filter EXCEPT
                       ![lane] = [Deref(biquad_init(Addr(filter[lane])))
                                    EXCEPT !.a0 = 0, !.a1 = One, !.a2 = 0,
                                           !.b1 = 0, !.b2 = 0]]
       /\ call' = [NoCall EXCEPT !.op = "unit_delay", !.lane = lane]
       /\ hist' = [hist EXCEPT ![lane] = NoHist[lane]]
  /\ used' = [used EXCEPT !.pokes = @ + 1]
  /\ UNCHANGED disk

\* biquad_init(&filter.left) or biquad_init(&filter.right)
BiquadInit ==
  /\ used.evals < MaxEvals
  /\ \E lane \in Lanes :
       /\ filter' = [filter EXCEPT
                       ![lane] = Deref(biquad_init(Addr(filter[lane])))]
       /\ call' = [NoCall EXCEPT
                     !.op = "biquad_init", !.lane = lane,
                     !.dirty = \E d \in DelayFields : filter[lane][d] # 0,
                     !.poked = used.pokes > 0]
       /\ hist' = [hist EXCEPT ![lane] = NoHist[lane]]
  /\ used' = [used EXCEPT !.evals = @ + 1]
  /\ UNCHANGED disk

\* biquad_flush_delays on one lane
BiquadFlush ==
  /\ used.evals < MaxEvals
  /\ \E lane \in Lanes :
       /\ filter' = [filter EXCEPT
                       ![lane] =
                          Deref(biquad_flush_delays(Addr(filter[lane])))]
       /\ call' = [NoCall EXCEPT
                     !.op = "biquad_flush_delays", !.lane = lane,
                     !.dirty = \E d \in DelayFields : filter[lane][d] # 0,
                     !.poked = used.pokes > 0]
       /\ hist' = [hist EXCEPT ![lane] = NoHist[lane]]
  /\ used' = [used EXCEPT !.evals = @ + 1]
  /\ UNCHANGED disk

\* biquad_process on one lane
BiquadProcess ==
  /\ used.evals < MaxEvals
  /\ \E lane \in Lanes, input \in Samples :
       LET bq == Addr(filter[lane])
           r  == biquad_process(bq, input)
           ev == << Evaluation("biquad_process", lane, 0, input, r.yn,
                               r.yn) >>
       IN  /\ filter' = [filter EXCEPT ![lane] = Deref(r.bq)]
           /\ call' = [NoCall EXCEPT !.op = "biquad_process",
                                     !.lane = lane, !.hpf = bq,
                                     !.input = input, !.ret = r.yn,
                                     !.evals = ev]
           /\ hist' = Record(hist, ev)
  /\ used' = [used EXCEPT !.evals = @ + 1]
  /\ UNCHANGED disk

\* the AudioBuffer struct a process_buffer call leaves behind: the function
\* reads buffer->channels, buffer->length and buffer->data, assigns no field
\* of the struct and writes samples through buffer->data only
BufferAfter(buffer, o) ==
  IF buffer = NULL
    THEN NULL
    ELSE LET b == Deref(buffer)
         IN  Addr([data        |-> o.data,
                   length      |-> b.length,
                   sample_rate |-> b.sample_rate,
                   channels    |-> b.channels,
                   bit_depth   |-> b.bit_depth])

\* a call that makes n recurrence evaluations is within the budget: a
\* freshly designed filter takes any array, later calls stop at MaxFollow
Within(n) == IF used.evals = 0 THEN TRUE ELSE used.evals + n <= MaxFollow

\* the state after a dispatcher call with outcome o
Dispatched(op, hpf, buffer, data, length, channel, o) ==
  /\ o.evals # << >>
  /\ Within(Len(o.evals))
  /\ filter' = IF o.hpf = NULL THEN filter ELSE Deref(o.hpf)
  /\ call' = [NoCall EXCEPT !.op = op, !.hpf = hpf,
                            !.buffer = buffer, !.data = data,
                            !.length = length, !.channel = channel,
                            !.out = o.data, !.evals = o.evals,
                            !.after = BufferAfter(buffer, o)]
  /\ hist' = Record(hist, o.evals)
  /\ used' = [used EXCEPT !.evals = @ + Len(o.evals)]
  /\ UNCHANGED disk

\* X_process_channel of the instance's type
process_channel(hpf, data, length, channel) ==
  CASE filter.kind = "hpf" -> hpf_process_channel(hpf, data, length, channel)
    [] filter.kind = "lpf" -> lpf_process_channel(hpf, data, length, channel)
    [] filter.kind = "peq" ->
         parametric_process_channel(hpf, data, length, channel)

\* X_process_buffer of the instance's type
process_buffer(hpf, buffer, alloc_ok) ==
  CASE filter.kind = "hpf" -> hpf_process_buffer(hpf, buffer, alloc_ok)
    [] filter.kind = "lpf" -> lpf_process_buffer(hpf, buffer, alloc_ok)
    [] filter.kind = "peq" -> parametric_process_buffer(hpf, buffer, alloc_ok)

\* the process_channel calls made: every array in full on channel 0 and
\* on channel 1, and all but the last sample of it on channel 2
ChannelCalls ==
  {<<a, Len(a), c>> : a \in Arrays, c \in {0, 1}}
    \cup {<<a, Len(a) - 1, 2>> : a \in Arrays \ {<< >>}}

ProcessChannel ==
  \E c \in ChannelCalls :
    /\ Within(c[2])
    /\ \E o \in {process_channel(Addr(filter), Addr(c[1]), c[2], c[3])} :
         Dispatched("process_channel", Addr(filter), NULL, Addr(c[1]),
                    c[2], c[3], o)

\* process_buffer on a buffer of 1 to MaxChannels channels
ProcessBuffer ==
  \E a \in Arrays, channels \in 1..MaxChannels, alloc_ok \in BOOLEAN :
    /\ alloc_ok \/ (filter.left_jit # NULL /\ filter.right_jit # NULL
                      /\ channels = 2)
    /\ Within(Len(a) - 1)
    /\ \E b \in {AudioBuffer(Addr(a), channels)} :
         \E o \in {process_buffer(Addr(filter), Addr(b), alloc_ok)} :
           Dispatched("process_buffer", Addr(filter), Addr(b), b.data,
                      b.length, b.channels, o)

\* process_channel on an array of one sample
ProcessChannelOne ==
  \E input \in Samples, channel \in {0, 1} :
    /\ Within(1)
    /\ \E o \in {process_channel(Addr(filter), Addr(<<input>>), 1, channel)} :
         Dispatched("process_channel", Addr(filter), NULL, Addr(<<input>>),
                    1, channel, o)

\* the state after a dispatcher call that made no recurrence evaluation
Returned(op, hpf, buffer, data, length, channel, o) ==
  /\ o.evals = << >>
  /\ filter' = IF o.hpf = NULL THEN filter ELSE Deref(o.hpf)
  /\ call' = [NoCall EXCEPT !.op = op, !.hpf = hpf,
                            !.buffer = buffer, !.data = data,
                            !.length = length, !.channel = channel,
                            !.out = o.data, !.dirty = Dirty(filter),
                            !.after = BufferAfter(buffer, o)]
  /\ UNCHANGED <<hist, used, disk>>

\* the arguments of the process_channel calls whose precondition fails: no
\* filter, no array, or a length of 0
RejectedChannelCalls ==
  {<<NULL, <<Addr(<<One>>), 1>>, 0>>,
   <<Addr(filter), <<NULL, 1>>, 1>>,
   <<Addr(filter), <<Addr(<<One>>), 0>>, 0>>}

ProcessChannelRejected ==
  \E c \in RejectedChannelCalls :
    \E o \in {process_channel(c[1], c[2][1], c[2][2], c[3])} :
      Returned("process_channel", c[1], NULL, c[2][1], c[2][2], c[3], o)

\* the buffers of the process_buffer calls whose precondition fails: no
\* buffer, a buffer without a data array, a buffer of length 0, and (for
\* the calls without a filter) a buffer that holds samples
RejectedBuffers ==
  {NULL,
   Addr([AudioBuffer(Addr(<<One, One>>), 2) EXCEPT !.data = NULL]),
   Addr(AudioBuffer(Addr(<<One, One>>), 2))}
    \cup {Addr(AudioBuffer(Addr(<< >>), channels)) : channels \in 1..2}

ProcessBufferRejected ==
  \E hpf \in {NULL, Addr(filter)}, buffer \in RejectedBuffers,
     alloc_ok \in BOOLEAN :
    \E b \in {IF buffer = NULL THEN AudioBuffer(NULL, 0)
                                ELSE Deref(buffer)} :
      /\ IF hpf = NULL THEN b.length > 0
                       ELSE b.data = NULL \/ b.length = 0
      /\ \E o \in {process_buffer(hpf, buffer, alloc_ok)} :
           Returned("process_buffer", hpf, buffer, b.data, b.length,
                    b.channels, o)

\* biquad_process without a unit
BiquadProcessNull ==
  \E input \in {One} :
    /\ filter' = filter
    /\ call' = [NoCall EXCEPT !.op = "biquad_process", !.hpf = NULL,
                              !.input = input,
                              !.ret = biquad_process(NULL, input).yn,
                              !.dirty = Dirty(filter)]
    /\ UNCHANGED <<hist, used, disk>>

\* ---------------------------------------------------------- specifications
InitWith(use_mlir) ==
  /\ \E kind \in {"hpf", "lpf", "peq"} :
       \E sr \in SampleRates, fq \in Freqs, g \in Gains, q \in Qs :
         \E j \in JitCreate(use_mlir) :
           /\ filter =
                CASE kind = "hpf" ->
                       Deref(hpf_init(Addr(JunkFilter(kind)), sr, fq, j[1], j[2]))
                  [] kind = "lpf" ->
                       Deref(lpf_init(Addr(JunkFilter(kind)), sr, fq, j[1], j[2]))
                  [] kind = "peq" ->
                       Deref(parametric_init(Addr(JunkFilter(kind)), sr, fq,
                                             g, q, j[1], j[2]))
           /\ call = [NoCall EXCEPT
                        !.op = "init",
                        !.args = IF kind = "peq" THEN <<sr, fq, g, q>>
                                                 ELSE <<sr, fq>>]
  /\ hist = NoHist
  /\ used = Unused
  /\ disk = NoDisk

\* the design calls of the instance's type
Design(use_mlir) ==
  \/ HpfInit(use_mlir)
  \/ HpfUpdate(use_mlir)
  \/ LpfInit(use_mlir)
  \/ LpfUpdate(use_mlir)
  \/ ParametricInit(use_mlir)
  \/ ParametricUpdate(use_mlir)

\* A caller of the library built without USE_MLIR that hands arrays and
\* buffers to the dispatchers.
Init == InitWith(FALSE)

Next ==
  \/ Design(FALSE)
  \/ Poke
  \/ ProcessChannel
  \/ ProcessBuffer

Spec == Init /\ [][Next]_vars

\* A caller that drives the two units of an instance sample by sample.
NextUnit ==
  \/ Design(FALSE)
  \/ Poke
  \/ UnitDelaySetup
  \/ BiquadInit
  \/ BiquadFlush
  \/ BiquadProcess

SpecUnit == Init /\ [][NextUnit]_vars

\* A caller of the library built with USE_MLIR that hands buffers to
\* process_buffer.
InitMlir == InitWith(TRUE)

NextMlir ==
  \/ Design(TRUE)
  \/ Poke
  \/ ProcessBuffer

SpecMlir == InitMlir /\ [][NextMlir]_vars

\* A caller of the library built with USE_MLIR that hands one buffer to a
\* freshly designed filter.
ProcessBufferFresh ==
  /\ used.evals = 0
  /\ ProcessBuffer

NextFresh ==
  \/ Design(TRUE)
  \/ ProcessBufferFresh

SpecFresh == InitMlir /\ [][NextFresh]_vars

\* A caller of the library built with USE_MLIR that mixes the three
\* processing calls: a buffer to a fresh filter, single samples through
\* process_channel, and biquad_process on the units.
BiquadProcessFollow ==
  /\ Within(1)
  /\ BiquadProcess

NextMixed ==
  \/ Design(TRUE)
  \/ BiquadProcessFollow
  \/ ProcessChannelOne
  \/ ProcessBufferFresh

SpecMixed == InitMlir /\ [][NextMixed]_vars

\* A caller of the library built with USE_MLIR that passes single samples
\* through the lanes and makes the calls the dispatchers reject.
NextRejected ==
  \/ Design(TRUE)
  \/ ProcessChannelOne
  \/ ProcessChannelRejected
  \/ ProcessBufferRejected
  \/ BiquadProcessNull

SpecRejected == InitMlir /\ [][NextRejected]_vars

\* A caller that designs a parametric filter over the whole table of center
\* frequencies, with Q factors from 0.5 to 10.
DesignFreqs == {4000, 6000, 8000, 12000, 16000, 18000, 20000}

DesignQs == {One \div 2, (707 * One) \div 1000, One, 2 * One, 10 * One}

ParametricInitAny ==
  \E sr \in SampleRates, fq \in DesignFreqs, g \in Gains, q \in DesignQs :
    Designed(Deref(parametric_init(Addr(filter), sr, fq, g, q, NULL, NULL)),
             "init", <<sr, fq, g, q>>)

ParametricUpdateAny ==
  \E sr \in SampleRates, fq \in DesignFreqs, g \in Gains, q \in DesignQs :
    Designed(Deref(parametric_update_coefficients(Addr(filter), sr, fq, g, q,
                                                  NULL, NULL)),
             "update_coefficients", <<sr, fq, g, q>>)

InitDesign ==
  /\ \E sr \in SampleRates, fq \in DesignFreqs, g \in Gains, q \in DesignQs :
       /\ filter = Deref(parametric_init(Addr(JunkFilter("peq")), sr, fq, g,
                                         q, NULL, NULL))
       /\ call = [NoCall EXCEPT !.op = "init", !.args = <<sr, fq, g, q>>]
  /\ hist = NoHist
  /\ used = Unused
  /\ disk = NoDisk

NextDesign ==
  \/ ParametricInitAny
  \/ ParametricUpdateAny

SpecDesign == InitDesign /\ [][NextDesign]_vars

\* A caller that designs a parametric filter at 0 dB over the whole table of
\* center frequencies and Q factors and passes one array of samples outside
\* the denormal range through the left unit.
LoudSamples == {One, -(3 * One), 2 * One + One \div 2}

LoudArrays == UNION {[1..n -> LoudSamples] : n \in 1..MaxLen}

ParametricInitFlat ==
  \E sr \in SampleRates, fq \in DesignFreqs, q \in DesignQs :
    Designed(Deref(parametric_init(Addr(filter), sr, fq, 0, q, NULL, NULL)),
             "init", <<sr, fq, 0, q>>)

ProcessChannelLoud ==
  /\ used.evals = 0
  /\ \E a \in LoudArrays :
       \E o \in {parametric_process_channel(Addr(filter), Addr(a), Len(a), 0)} :
         Dispatched("process_channel", Addr(filter), NULL, Addr(a), Len(a),
                    0, o)

InitFlat ==
  /\ \E sr \in SampleRates, fq \in DesignFreqs, q \in DesignQs :
       /\ filter = Deref(parametric_init(Addr(JunkFilter("peq")), sr, fq, 0,
                                         q, NULL, NULL))
       /\ call = [NoCall EXCEPT !.op = "init", !.args = <<sr, fq, 0, q>>]
  /\ hist = NoHist
  /\ used = Unused
  /\ disk = NoDisk

NextFlat ==
  \/ ParametricInitFlat
  \/ ProcessChannelLoud

SpecFlat == InitFlat /\ [][NextFlat]_vars

\* ------------------------------------------------------------- WAV samples
\* A double of an audio file is an integer count of steps of 1/32768: Full
\* stands for 1.0. Every product and quotient below is exact in double
\* arithmetic for these values, so the integer arithmetic is the code's.
Full == 32768

BitDepths == {8, 16, 24, 32}

\* the range of the integer type a code of the depth is stored in: uint8_t,
\* int16_t, three bytes of an int32_t, int32_t
TypeMin(bit_depth) ==
  CASE bit_depth = 8  -> 0
    [] bit_depth = 16 -> -32768
    [] bit_depth = 24 -> -8388608
    [] bit_depth = 32 -> -2147483647 - 1

TypeMax(bit_depth) ==
  CASE bit_depth = 8  -> 255
    [] bit_depth = 16 -> 32767
    [] bit_depth = 24 -> 8388607
    [] bit_depth = 32 -> 2147483647

\* one code of a PCM buffer as a double: (s - 128) / 128.0, s / 32768.0,
\* s / 8388608.0, s / 2147483648.0
PcmSample(bit_depth, s) ==
  CASE bit_depth = 8  -> (s - 128) * (Full \div 128)
    [] bit_depth = 16 -> s
    [] bit_depth = 24 -> s \div (8388608 \div Full)
    [] bit_depth = 32 -> s \div 65536

\* pcm_to_float64: the doubles of the first sample_count codes; output is
\* left as it was without a PCM buffer, without an output array or for a
\* sample_count of 0
pcm_to_float64(pcm, output, sample_count) ==
  IF pcm = NULL \/ output = NULL \/ sample_count = 0
    THEN output
    ELSE Addr([i \in 1..Len(Deref(output)) |->
                 IF i <= sample_count
                   THEN PcmSample(Deref(pcm).bit_depth, Deref(pcm).data[i])
                   ELSE Deref(output)[i]])

\* fmax(-1.0, fmin(1.0, x))
Clamped(x) == IF x > Full THEN Full ELSE IF x < -Full THEN -Full ELSE x

\* the integral part of clamped * scale, for scale 32767.0, 8388607.0 or
\* 2147483647.0: a conversion to an integer type discards the fraction
Truncated(clamped, scale) ==
  LET n == Abs(clamped)
      m == n * (scale \div Full) + (n * (scale % Full)) \div Full
  IN  IF clamped < 0 THEN -m ELSE m

\* the conversion with the 16-bit samples offset like the 8-bit ones
ScaledSample_SixteenOffset(bit_depth, x) ==
  CASE bit_depth = 8  -> (Clamped(x) * 128 + 128 * Full) \div Full
    [] bit_depth = 16 -> Truncated(Clamped(x), 32767) + 128
    [] bit_depth = 24 -> Truncated(Clamped(x), 8388607)
    [] bit_depth = 32 -> Truncated(Clamped(x), 2147483647)

\* the value float64_to_pcm converts to the integer type of the depth
ScaledSample(bit_depth, x) ==
  CASE bit_depth = 8  -> (Clamped(x) * 128 + 128 * Full) \div Full
    [] bit_depth = 16 -> Truncated(Clamped(x), 32767)
    [] bit_depth = 24 -> Truncated(Clamped(x), 8388607)
    [] bit_depth = 32 -> Truncated(Clamped(x), 2147483647)

\* the codes a conversion of v to the integer type can store: v itself when
\* the type holds it; otherwise the conversion is undefined, and the builds
\* produce the low bits of v or the nearest bound of the type
Cast(bit_depth, v) ==
  IF v >= TypeMin(bit_depth) /\ v <= TypeMax(bit_depth)
    THEN {v}
    ELSE {v % (TypeMax(bit_depth) + 1),
          IF v < TypeMin(bit_depth) THEN TypeMin(bit_depth)
                                    ELSE TypeMax(bit_depth)}

RECURSIVE Stores(_, _)
Stores(bit_depth, scaled) ==
  IF scaled = << >>
    THEN {<< >>}
    ELSE {<<c>> \o r : c \in Cast(bit_depth, Head(scaled)),
                       r \in Stores(bit_depth, Tail(scaled))}

\* float64_to_pcm: the values converted and the PCM buffers the conversion
\* can leave; the buffer is left as it was without an input array, without
\* a buffer or for a sample_count of 0
float64_to_pcm(input, pcm, sample_count) ==
  IF input = NULL \/ pcm = NULL \/ sample_count = 0
    THEN {[scaled |-> << >>, pcm |-> pcm]}
    ELSE LET scaled == [i \in 1..sample_count |->
                          ScaledSample(Deref(pcm).bit_depth, Deref(input)[i])]
         IN  {[scaled |-> scaled,
               pcm    |-> Addr([Deref(pcm) EXCEPT
                                  !.data = s \o SubSeq(@, sample_count + 1,
                                                       Len(@))])] :
                s \in Stores(Deref(pcm).bit_depth, scaled)}

\* pcm_buffer_create: a PCM buffer of length bytes of the depth, its data
\* not yet written (or NULL when the allocation fails)
pcm_buffer_create(length, bit_depth, alloc_ok) ==
  IF alloc_ok
    THEN Addr([data |-> [i \in 1..(length \div (bit_depth \div 8)) |-> 7],
               length |-> length, bit_depth |-> bit_depth])
    ELSE NULL

\* audio_buffer_create: an AudioBuffer of length doubles, its data not yet
\* written (or NULL when an allocation fails)
audio_buffer_create(length, sample_rate, channels, bit_depth, alloc_ok) ==
  IF alloc_ok
    THEN Addr([data |-> Addr([i \in 1..length |-> 7]), length |-> length,
               sample_rate |-> sample_rate, channels |-> channels,
               bit_depth |-> bit_depth])
    ELSE NULL

\* --------------------------------------------------------------- WAV files
\* A file is its RIFF header (NULL when the file ends before it is complete)
\* and its chunks in order. A chunk is its id, its declared size in bytes
\* and its body: the fields of a "fmt " chunk (NULL when the file ends
\* inside them), the sample codes of a "data" chunk that the file holds.

Riff(chunk_id, format) == Addr([chunk_id |-> chunk_id, format |-> format])

Fmt(audio_format, num_channels, sample_rate, bits_per_sample) ==
  [subchunk_id |-> "fmt ", subchunk_size |-> 16,
   audio_format |-> audio_format, num_channels |-> num_channels,
   sample_rate |-> sample_rate,
   byte_rate |-> (sample_rate * num_channels * bits_per_sample) \div 8,
   block_align |-> (num_channels * bits_per_sample) \div 8,
   bits_per_sample |-> bits_per_sample]

FmtChunk(fmt) ==
  [id |-> "fmt ", size |-> fmt.subchunk_size, body |-> Addr(fmt)]

DataChunk(size, codes) == [id |-> "data", size |-> size, body |-> codes]

OtherChunk(id) == [id |-> id, size |-> 4, body |-> << >>]

\* validate_wav_header
validate_wav_header(riff, fmt) ==
  IF Deref(riff).chunk_id # "RIFF" THEN 0
  ELSE IF Deref(riff).format # "WAVE" THEN 0
  ELSE IF Deref(fmt).subchunk_id # "fmt " THEN 0
  ELSE IF Deref(fmt).audio_format # 1 /\ Deref(fmt).audio_format # 3 THEN 0
  ELSE IF Deref(fmt).num_channels < 1 \/ Deref(fmt).num_channels > 16 THEN 0
  ELSE IF Deref(fmt).bits_per_sample \notin {8, 16, 24, 32} THEN 0
  ELSE IF Deref(fmt).byte_rate #
            (Deref(fmt).sample_rate * Deref(fmt).num_channels
               * Deref(fmt).bits_per_sample) \div 8 THEN 0
  ELSE IF Deref(fmt).block_align #
            (Deref(fmt).num_channels * Deref(fmt).bits_per_sample) \div 8
         THEN 0
  ELSE 1

\* the position of the first chunk with the id at or after position from,
\* 0 when the file ends first: the loops that read a chunk header and skip
\* the chunk's body until the id is found
RECURSIVE Search(_, _, _)
Search(chunks, from, id) ==
  IF from > Len(chunks) THEN 0
  ELSE IF chunks[from].id = id THEN from
  ELSE Search(chunks, from + 1, id)

\* the result of a read_wave whose read failures return without fclose
ReadResult_ReadErrorKeepsOpen(ret, error, code, events) ==
  [ret |-> ret, error |-> IF error = NULL THEN NULL ELSE Addr(code),
   events |-> IF code = "AUDIO_ERROR_READ_ERROR"
                THEN LET kept(e) == e # "fclose" IN SelectSeq(events, kept)
                ELSE events]

\* what a read_wave call returns: the buffer, the AudioError behind the
\* error pointer, and the resources the call acquired and released, in order
ReadResult(ret, error, code, events) ==
  [ret |-> ret, error |-> IF error = NULL THEN NULL ELSE Addr(code),
   events |-> events]

\* read_wave on the files of the file system; pcm_ok and buffer_ok tell
\* whether the allocations of pcm_buffer_create and audio_buffer_create
\* succeed
read_wave(filepath, error, files, pcm_ok, buffer_ok) ==
  IF filepath = NULL
    THEN ReadResult(NULL, error, "AUDIO_ERROR_INVALID_PARAMETER", << >>)
  ELSE IF files[Deref(filepath)] = NULL
    THEN ReadResult(NULL, error, "AUDIO_ERROR_FILE_NOT_FOUND", << >>)
  ELSE
    LET file == Deref(files[Deref(filepath)])
        riff == file.riff
        at_fmt == Search(file.chunks, 1, "fmt ")
    IN
    IF riff = NULL
      THEN ReadResult(NULL, error, "AUDIO_ERROR_READ_ERROR",
                   <<"fopen", "fclose">>)
    ELSE IF Deref(riff).chunk_id # "RIFF" \/ Deref(riff).format # "WAVE"
      THEN ReadResult(NULL, error, "AUDIO_ERROR_INVALID_FORMAT",
                   <<"fopen", "fclose">>)
    ELSE IF at_fmt = 0
      THEN ReadResult(NULL, error, "AUDIO_ERROR_INVALID_FORMAT",
                   <<"fopen", "fclose">>)
    ELSE IF file.chunks[at_fmt].body = NULL
      THEN ReadResult(NULL, error, "AUDIO_ERROR_READ_ERROR",
                   <<"fopen", "fclose">>)
    ELSE
      LET fmt == file.chunks[at_fmt].body
          at_data == Search(file.chunks, at_fmt + 1, "data")
      IN
      IF validate_wav_header(riff, fmt) = 0
        THEN ReadResult(NULL, error, "AUDIO_ERROR_INVALID_FORMAT",
                     <<"fopen", "fclose">>)
      ELSE IF at_data = 0
        THEN ReadResult(NULL, error, "AUDIO_ERROR_INVALID_FORMAT",
                     <<"fopen", "fclose">>)
      ELSE
        LET data_header == file.chunks[at_data]
            bytes_per_sample == Deref(fmt).bits_per_sample \div 8
            total_samples == data_header.size \div bytes_per_sample
            pcm == pcm_buffer_create(data_header.size,
                                     Deref(fmt).bits_per_sample, pcm_ok)
        IN
        IF pcm = NULL
          THEN ReadResult(NULL, error, "AUDIO_ERROR_MEMORY_ERROR",
                       <<"fopen", "fclose">>)
        ELSE IF Len(data_header.body) * bytes_per_sample < data_header.size
          THEN ReadResult(NULL, error, "AUDIO_ERROR_READ_ERROR",
                       <<"fopen", "pcm_buffer_create", "pcm_buffer_free",
                         "fclose">>)
        ELSE
          LET read == Addr([Deref(pcm) EXCEPT
                              !.data = SubSeq(data_header.body, 1,
                                              total_samples)])
              buffer == audio_buffer_create(total_samples,
                                            Deref(fmt).sample_rate,
                                            Deref(fmt).num_channels,
                                            Deref(fmt).bits_per_sample,
                                            buffer_ok)
          IN
          IF buffer = NULL
            THEN ReadResult(NULL, error, "AUDIO_ERROR_MEMORY_ERROR",
                         <<"fopen", "pcm_buffer_create", "fclose",
                           "pcm_buffer_free">>)
            ELSE ReadResult(
                   Addr([Deref(buffer) EXCEPT
                           !.data = pcm_to_float64(read, @, total_samples)]),
                   error, "AUDIO_SUCCESS",
                   <<"fopen", "pcm_buffer_create", "fclose",
                     "audio_buffer_create", "pcm_buffer_free">>)

\* the file a write_wave call leaves after written of its four writes (the
\* RIFF header, the fmt chunk, the data chunk header, the PCM data)
\* succeeded; a write that fails adds nothing to the file
FileWritten(written, fmt, data_size, codes) ==
  Addr([riff   |-> IF written >= 1 THEN Riff("RIFF", "WAVE") ELSE NULL,
        chunks |-> (IF written >= 2 THEN <<FmtChunk(fmt)>> ELSE << >>)
                     \o (IF written >= 3
                           THEN <<DataChunk(data_size,
                                            IF written >= 4 THEN codes
                                                            ELSE << >>)>>
                           ELSE << >>)])

\* the result of a write_wave that creates out.wav before anything else
WriteResult_CreatesFirst(ret, files, events, scaled) ==
  [ret |-> ret, events |-> events, scaled |-> scaled,
   files |-> IF files["out.wav"] = NULL
               THEN [files EXCEPT !["out.wav"] =
                                    Addr([riff |-> NULL, chunks |-> << >>])]
               ELSE files]

\* what a write_wave call returns and leaves: the AudioError, the files, the
\* resources acquired and released in order, the values converted
WriteResult(ret, files, events, scaled) ==
  [ret |-> ret, files |-> files, events |-> events, scaled |-> scaled]

\* write_wave on the files of the file system: the outcomes the call can
\* have. open_ok tells whether fopen succeeds, written how many of the four
\* writes succeed (the fourth always does when there is no data: fwrite of
\* no bytes returns the 0 that write_exact expects), pcm_ok whether the
\* allocation of pcm_buffer_create does
write_wave(filepath, buffer, files, open_ok, written, pcm_ok) ==
  IF filepath = NULL
    THEN {WriteResult("AUDIO_ERROR_INVALID_PARAMETER", files, << >>, << >>)}
  ELSE IF buffer = NULL
    THEN {WriteResult("AUDIO_ERROR_INVALID_PARAMETER", files, << >>, << >>)}
  ELSE IF Deref(buffer).data = NULL
    THEN {WriteResult("AUDIO_ERROR_INVALID_PARAMETER", files, << >>, << >>)}
  ELSE IF ~open_ok
    THEN {WriteResult("AUDIO_ERROR_WRITE_ERROR", files, << >>, << >>)}
  ELSE
    LET b == Deref(buffer)
        bytes_per_sample == b.bit_depth \div 8
        data_size == b.length * bytes_per_sample
        fmt == [subchunk_id |-> "fmt ", subchunk_size |-> 16,
                audio_format |-> 1, num_channels |-> b.channels,
                sample_rate |-> b.sample_rate,
                byte_rate |-> b.sample_rate * b.channels * bytes_per_sample,
                block_align |-> b.channels * bytes_per_sample,
                bits_per_sample |-> b.bit_depth]
        pcm == pcm_buffer_create(data_size, b.bit_depth, pcm_ok)
        left(n, codes) ==
          [files EXCEPT ![Deref(filepath)] =
                          FileWritten(n, fmt, data_size, codes)]
    IN
    IF written < 3
      THEN {WriteResult("AUDIO_ERROR_WRITE_ERROR", left(written, << >>),
                        <<"fopen", "fclose">>, << >>)}
    ELSE IF pcm = NULL
      THEN {WriteResult("AUDIO_ERROR_MEMORY_ERROR", left(3, << >>),
                        <<"fopen", "fclose">>, << >>)}
    ELSE
      {IF written < 4 /\ data_size > 0
         THEN WriteResult("AUDIO_ERROR_WRITE_ERROR", left(3, << >>),
                          <<"fopen", "pcm_buffer_create", "pcm_buffer_free",
                            "fclose">>, c.scaled)
         ELSE WriteResult("AUDIO_SUCCESS", left(4, Deref(c.pcm).data),
                          <<"fopen", "pcm_buffer_create", "pcm_buffer_free",
                            "fclose">>, c.scaled) :
         c \in float64_to_pcm(b.data, pcm, b.length)}

\* -------------------------------------------------------------- WAV caller
\* the number of samples of the files and arrays of the callers
MaxSamples == 2

\* what the callers of the file functions pass and get back:
\*   filepath, error   the arguments of read_wave and write_wave
\*   reported          the error pointer after the call
\*   ret               the buffer read_wave returned, the AudioError
\*                     write_wave returned
\*   events            the resources the call acquired and released
\*   before            the files before the call
\*   pcm_ok, buffer_ok, open_ok   which allocations and fopen succeeded
\*   bit_depth, input, scaled, pcm   the doubles a conversion was given, the
\*                     values it converted, the codes it stored
\*   held              the AudioBuffer the caller holds: the last one
\*                     read_wave returned
\*   written           the path and the buffer of the write_wave call that
\*                     returned AUDIO_SUCCESS
NoIo ==
  [op |-> "", filepath |-> NULL, error |-> NULL, reported |-> NULL,
   ret |-> NULL, events |-> << >>, before |-> NoDisk, pcm_ok |-> TRUE,
   buffer_ok |-> TRUE, open_ok |-> TRUE, bit_depth |-> 0, input |-> NULL,
   scaled |-> << >>, pcm |-> NULL, buffer |-> NULL, held |-> NULL,
   written |-> NULL]

IoCall(op) ==
  [NoIo EXCEPT !.op = op, !.before = disk, !.held = call.held,
               !.written = call.written]

\* the codes of the files' samples: the ends of each type's range and a
\* step next to silence; the 24- and 32-bit codes are whole steps of 1/32768
Codes(bit_depth) ==
  CASE bit_depth = 8  -> {0, 129, 255}
    [] bit_depth = 16 -> {-32768, -1, 0, 1, 32767}
    [] bit_depth = 24 -> {-8388608, 256, 8388352}
    [] bit_depth = 32 -> {-2147483647 - 1, -65536, 2147418112}

\* a well-formed file: PCM, the data chunk as long as it says
WavFile(bit_depth, num_channels, sample_rate, codes) ==
  Addr([riff   |-> Riff("RIFF", "WAVE"),
        chunks |-> <<FmtChunk(Fmt(1, num_channels, sample_rate, bit_depth)),
                     DataChunk(Len(codes) * (bit_depth \div 8), codes)>>])

\* the well-formed files of one or two channels and up to MaxSamples
\* samples of every depth, at 48 kHz
GoodFiles ==
  UNION {{WavFile(bit_depth, num_channels, 48000, codes) :
            num_channels \in 1..2,
            codes \in UNION {[1..n -> Codes(bit_depth)] :
                               n \in 0..MaxSamples}} :
           bit_depth \in BitDepths}

\* files read_wave gives up on (the last six for an fmt chunk that
\* validate_wav_header rejects), and files with chunks it skips
OddFiles ==
  {Addr([riff |-> NULL, chunks |-> << >>]),
   Addr([riff |-> Riff("RIFX", "WAVE"), chunks |-> << >>]),
   Addr([riff |-> Riff("RIFF", "AVI "), chunks |-> << >>]),
   Addr([riff |-> Riff("RIFF", "WAVE"), chunks |-> << >>]),
   Addr([riff |-> Riff("RIFF", "WAVE"),
         chunks |-> <<OtherChunk("JUNK")>>]),
   Addr([riff |-> Riff("RIFF", "WAVE"),
         chunks |-> <<[id |-> "fmt ", size |-> 16, body |-> NULL]>>]),
   Addr([riff |-> Riff("RIFF", "WAVE"),
         chunks |-> <<FmtChunk(Fmt(1, 1, 48000, 16))>>]),
   Addr([riff |-> Riff("RIFF", "WAVE"),
         chunks |-> <<FmtChunk(Fmt(1, 1, 48000, 16)),
                      OtherChunk("LIST")>>]),
   Addr([riff |-> Riff("RIFF", "WAVE"),
         chunks |-> <<DataChunk(2, <<1>>),
                      FmtChunk(Fmt(1, 1, 48000, 16))>>]),
   Addr([riff |-> Riff("RIFF", "WAVE"),
         chunks |-> <<FmtChunk(Fmt(1, 1, 48000, 16)),
                      DataChunk(4, <<1>>)>>]),
   Addr([riff |-> Riff("RIFF", "WAVE"),
         chunks |-> <<FmtChunk(Fmt(1, 1, 48000, 16)),
                      DataChunk(3, <<1, -1>>)>>]),
   Addr([riff |-> Riff("RIFF", "WAVE"),
         chunks |-> <<OtherChunk("JUNK"),
                      FmtChunk([Fmt(3, 2, 48000, 32) EXCEPT
                                  !.subchunk_size = 18]),
                      OtherChunk("LIST"),
                      DataChunk(8, <<65536, -65536>>)>>])}
    \cup {Addr([riff |-> Riff("RIFF", "WAVE"),
                chunks |-> <<FmtChunk(fmt), DataChunk(2, <<1>>)>>]) :
            fmt \in {Fmt(2, 1, 48000, 16), Fmt(1, 0, 48000, 16),
                     Fmt(1, 17, 48000, 16), Fmt(1, 1, 48000, 12),
                     [Fmt(1, 2, 48000, 16) EXCEPT !.byte_rate = 96000],
                     [Fmt(1, 2, 48000, 16) EXCEPT !.block_align = 2]}}

\* the read_wave calls of the caller: every path with and without an error
\* pointer, and the files on disk with one allocation failing
ReadCalls ==
  {<<filepath, error, TRUE, TRUE>> :
     filepath \in {NULL} \cup {Addr(p) : p \in Paths},
     error \in {NULL, Addr("unset")}}
    \cup {<<Addr(p), Addr("unset"), ok[1], ok[2]>> :
            p \in {"in.wav", "out.wav"},
            ok \in {<<FALSE, TRUE>>, <<TRUE, FALSE>>}}

\* read_wave, as the tests and the command line tool call it
ReadWave ==
  \E c \in ReadCalls :
    \E r \in {read_wave(c[1], c[2], disk, c[3], c[4])} :
      /\ call' = [IoCall("read_wave") EXCEPT
                    !.filepath = c[1], !.error = c[2],
                    !.reported = r.error, !.ret = r.ret,
                    !.events = r.events, !.pcm_ok = c[3],
                    !.buffer_ok = c[4],
                    !.held = IF r.ret = NULL THEN @ ELSE r.ret]
      /\ UNCHANGED <<filter, hist, used, disk>>

\* the write_wave calls of a caller that holds a buffer: the calls without
\* a path, without a buffer and with a buffer without data, and the buffer
\* to out.wav with nothing failing, with fopen failing, with one of the
\* four writes failing and with the allocation failing
WriteCalls(held) ==
  {<<NULL, held, TRUE, 4, TRUE>>,
   <<Addr("out.wav"), NULL, TRUE, 4, TRUE>>,
   <<Addr("out.wav"), Addr([Deref(held) EXCEPT !.data = NULL]), TRUE, 4,
     TRUE>>,
   <<Addr("out.wav"), held, FALSE, 4, TRUE>>,
   <<Addr("out.wav"), held, TRUE, 4, FALSE>>}
    \cup {<<Addr("out.wav"), held, TRUE, written, TRUE>> :
            written \in 0..4}

\* write_wave, until one call returned AUDIO_SUCCESS
WriteWave ==
  /\ call.held # NULL
  /\ call.written = NULL
  /\ \E c \in WriteCalls(call.held) :
       \E w \in write_wave(c[1], c[2], disk, c[3], c[4], c[5]) :
         /\ call' = [IoCall("write_wave") EXCEPT
                       !.filepath = c[1], !.buffer = c[2],
                       !.ret = w.ret, !.events = w.events,
                       !.open_ok = c[3], !.pcm_ok = c[5],
                       !.bit_depth = IF w.scaled = << >>
                                       THEN 0 ELSE Deref(c[2]).bit_depth,
                       !.input = IF w.scaled = << >>
                                   THEN NULL ELSE Deref(c[2]).data,
                       !.scaled = w.scaled,
                       !.written = IF w.ret = "AUDIO_SUCCESS"
                                     THEN Addr([filepath |-> c[1],
                                                buffer |-> c[2]])
                                     ELSE @]
         /\ disk' = w.files
         /\ UNCHANGED <<filter, hist, used>>

\* the doubles handed to float64_to_pcm directly: silence, one step, half
\* and full scale of both signs, and values beyond full scale
WavDoubles ==
  {-(2 * Full), -Full, 1 - Full, -(Full \div 2), -1, 0, 1, Full \div 2,
   Full - 1, Full, 2 * Full}

\* float64_to_pcm on an array of doubles and a fresh PCM buffer
Float64ToPcm ==
  \E bit_depth \in BitDepths,
     input \in UNION {[1..n -> WavDoubles] : n \in 1..MaxSamples} :
    \E pcm \in {pcm_buffer_create(Len(input) * (bit_depth \div 8),
                                  bit_depth, TRUE)} :
      \E c \in float64_to_pcm(Addr(input), pcm, Len(input)) :
        /\ call' = [IoCall("float64_to_pcm") EXCEPT
                      !.bit_depth = bit_depth, !.input = Addr(input),
                      !.scaled = c.scaled, !.pcm = c.pcm]
        /\ UNCHANGED <<filter, hist, used, disk>>

\* A caller of the file functions: a file in.wav is on disk; the caller
\* reads files and writes the buffer it holds to out.wav.
InitWav ==
  /\ filter = JunkFilter("hpf")
  /\ call = NoIo
  /\ hist = NoHist
  /\ used = Unused
  /\ \E file \in GoodFiles \cup OddFiles :
       disk = [NoDisk EXCEPT !["in.wav"] = file]

NextWav ==
  \/ ReadWave
  \/ WriteWave

SpecWav == InitWav /\ [][NextWav]_vars

\* A caller of the conversion alone: arrays of doubles into PCM buffers of
\* every depth.
InitPcm ==
  /\ filter = JunkFilter("hpf")
  /\ call = NoIo
  /\ hist = NoHist
  /\ used = Unused
  /\ disk = NoDisk

SpecPcm == InitPcm /\ [][Float64ToPcm]_vars

\* ------------------------------------------------------- command line tool
\* audio_util.c linked with the library built without USE_MLIR. A double of
\* the command line is the number atof returns: a frequency in Hz, a gain in
\* dB, a Q factor in steps of 1/One.

\* parse_filter_type
parse_filter_type(filter_str) ==
  IF filter_str = NULL THEN "FILTER_NONE"
  ELSE IF Deref(filter_str) = "hpf" THEN "FILTER_HPF"
  ELSE IF Deref(filter_str) = "lpf" THEN "FILTER_LPF"
  ELSE IF Deref(filter_str) = "peq" THEN "FILTER_PEQ"
  ELSE "FILTER_NONE"

\* validate_config; the fopen of the input path succeeds when the file is
\* there
validate_config(config, files) ==
  IF config.input_path = NULL THEN 0
  ELSE IF config.output_path = NULL THEN 0
  ELSE IF config.filter = "FILTER_NONE" THEN 0
  ELSE IF config.frequency <= 0 THEN 0
  ELSE IF config.filter = "FILTER_PEQ" /\ config.q <= 0 THEN 0
  ELSE IF files[Deref(config.input_path)] = NULL THEN 0
  ELSE 1

\* what an apply function returns and leaves: its return value, the filter
\* instance it declared, the buffer, and the library calls it made
Applied(ret, calls, buffer, o) ==
  [ret |-> ret, calls |-> calls, filter |-> o.hpf,
   buffer |-> IF ret = 0 THEN buffer ELSE BufferAfter(buffer, o)]

\* apply_hpf: nyquist = buffer->sample_rate / 2.0
apply_hpf(buffer, frequency) ==
  IF 2 * frequency >= Deref(buffer).sample_rate
    THEN {Applied(0, << >>, buffer, Outcome(NULL, NULL, << >>))}
    ELSE {Applied(1, <<"hpf_init", "hpf_process_buffer">>, buffer, o) :
            o \in {hpf_process_buffer(
                     hpf_init(Addr(JunkFilter("hpf")),
                              Deref(buffer).sample_rate, frequency, NULL,
                              NULL),
                     buffer, TRUE)}}

\* apply_lpf
apply_lpf(buffer, frequency) ==
  IF 2 * frequency >= Deref(buffer).sample_rate
    THEN {Applied(0, << >>, buffer, Outcome(NULL, NULL, << >>))}
    ELSE {Applied(1, <<"lpf_init", "lpf_process_buffer">>, buffer, o) :
            o \in {lpf_process_buffer(
                     lpf_init(Addr(JunkFilter("lpf")),
                              Deref(buffer).sample_rate, frequency, NULL,
                              NULL),
                     buffer, TRUE)}}

\* apply_peq
apply_peq(buffer, frequency, gain, q) ==
  IF 2 * frequency >= Deref(buffer).sample_rate
    THEN {Applied(0, << >>, buffer, Outcome(NULL, NULL, << >>))}
    ELSE {Applied(1, <<"parametric_init", "parametric_process_buffer">>,
                  buffer, o) :
            o \in {parametric_process_buffer(
                     parametric_init(Addr(JunkFilter("peq")),
                                     Deref(buffer).sample_rate, frequency,
                                     gain, q, NULL, NULL),
                     buffer, TRUE)}}

\* what a run returns and leaves: the exit code, the files, the calls it
\* made in order, the filter instance it declared (NULL if none)
Exit(code, files, calls, hpf) ==
  [exit |-> code, files |-> files, calls |-> calls, filter |-> hpf]

\* process_audio going on to write_wave after the apply function failed
process_audio_WritesAnyway(config, files, faults) ==
  UNION {
    IF r.ret = NULL
      THEN {Exit(1, files, <<"read_wave">>, NULL)}
      ELSE UNION {
        {Exit(IF w.ret = "AUDIO_SUCCESS" /\ a.ret = 1 THEN 0 ELSE 1, w.files,
              <<"read_wave">> \o a.calls
                \o <<"write_wave", "audio_buffer_free">>,
              a.filter) :
           w \in write_wave(config.output_path, a.buffer, files, faults[3],
                            faults[4], faults[5])} :
        a \in CASE config.filter = "FILTER_HPF" ->
                    apply_hpf(r.ret, config.frequency)
               [] config.filter = "FILTER_LPF" ->
                    apply_lpf(r.ret, config.frequency)
               [] config.filter = "FILTER_PEQ" ->
                    apply_peq(r.ret, config.frequency, config.gain,
                              config.q)} :
    r \in {read_wave(config.input_path, Addr("unset"), files, faults[1],
                     faults[2])}}

\* process_audio: the outcomes of the run (each a set of one, as are those
\* of the apply functions). faults tells which of the two allocations of
\* read_wave succeed, whether the fopen of write_wave does, how many of its
\* four writes do, and whether its allocation does
process_audio(config, files, faults) ==
  UNION {
    IF r.ret = NULL
      THEN {Exit(1, files, <<"read_wave">>, NULL)}
      ELSE UNION {
        IF a.ret = 0
          THEN {Exit(1, files, <<"read_wave", "audio_buffer_free">>, NULL)}
          ELSE {Exit(IF w.ret = "AUDIO_SUCCESS" THEN 0 ELSE 1, w.files,
                     <<"read_wave">> \o a.calls
                       \o <<"write_wave", "audio_buffer_free">>,
                     a.filter) :
                  w \in write_wave(config.output_path, a.buffer, files,
                                   faults[3], faults[4], faults[5])} :
        a \in CASE config.filter = "FILTER_HPF" ->
                    apply_hpf(r.ret, config.frequency)
               [] config.filter = "FILTER_LPF" ->
                    apply_lpf(r.ret, config.frequency)
               [] config.filter = "FILTER_PEQ" ->
                    apply_peq(r.ret, config.frequency, config.gain,
                              config.q)
               [] OTHER ->
                    {Applied(0, << >>, r.ret, Outcome(NULL, NULL, << >>))}} :
    r \in {read_wave(config.input_path, Addr("unset"), files, faults[1],
                     faults[2])}}

\* the option loop of main on the options getopt_long returns, each with
\* its optarg: the Config after the options and -1, or the code main
\* returns from inside the loop
RECURSIVE Options(_, _)
Options(config, opts) ==
  IF opts = << >>
    THEN [config |-> config, ret |-> -1]
    ELSE LET opt == Head(opts)[1]
             optarg == Head(opts)[2]
         IN  CASE opt = "i" ->
                    Options([config EXCEPT !.input_path = optarg],
                            Tail(opts))
               [] opt = "o" ->
                    Options([config EXCEPT !.output_path = optarg],
                            Tail(opts))
               [] opt = "f" ->
                    IF parse_filter_type(optarg) = "FILTER_NONE"
                      THEN [config |-> [config EXCEPT
                                          !.filter = "FILTER_NONE"],
                            ret |-> 1]
                      ELSE Options([config EXCEPT
                                      !.filter = parse_filter_type(optarg)],
                                   Tail(opts))
               [] opt = "r" ->
                    Options([config EXCEPT !.frequency = optarg], Tail(opts))
               [] opt = "g" ->
                    Options([config EXCEPT !.gain = optarg], Tail(opts))
               [] opt = "q" ->
                    Options([config EXCEPT !.q = optarg], Tail(opts))
               [] opt = "h" -> [config |-> config, ret |-> 0]
               [] opt = "v" -> [config |-> config, ret |-> 0]
               [] OTHER -> [config |-> config, ret |-> 1]

\* main without the test of optind against argc
main_IgnoresOperands(opts, operands, files, faults) ==
  UNION {
    {[config |-> parsed.config, exit |-> e.exit, files |-> e.files,
      calls |-> e.calls, filter |-> e.filter] :
       e \in IF parsed.ret # -1
               THEN {Exit(parsed.ret, files, << >>, NULL)}
             ELSE IF validate_config(parsed.config, files) = 0
               THEN {Exit(1, files, <<"validate_config">>, NULL)}
             ELSE {Exit(x.exit, x.files, <<"validate_config">> \o x.calls,
                        x.filter) :
                     x \in process_audio(parsed.config, files, faults)}} :
    parsed \in {Options([input_path |-> NULL, output_path |-> NULL,
                         filter |-> "FILTER_NONE", frequency |-> 0,
                         gain |-> 0, q |-> One], opts)}}

\* main on the options of the command line and the number of arguments that
\* are not options: the outcomes of the run
main(opts, operands, files, faults) ==
  UNION {
    {[config |-> parsed.config, exit |-> e.exit, files |-> e.files,
      calls |-> e.calls, filter |-> e.filter] :
       e \in IF parsed.ret # -1
               THEN {Exit(parsed.ret, files, << >>, NULL)}
             ELSE IF operands > 0
               THEN {Exit(1, files, << >>, NULL)}
             ELSE IF validate_config(parsed.config, files) = 0
               THEN {Exit(1, files, <<"validate_config">>, NULL)}
             ELSE {Exit(x.exit, x.files, <<"validate_config">> \o x.calls,
                        x.filter) :
                     x \in process_audio(parsed.config, files, faults)}} :
    parsed \in {Options([input_path |-> NULL, output_path |-> NULL,
                         filter |-> "FILTER_NONE", frequency |-> 0,
                         gain |-> 0, q |-> One], opts)}}

\* the command lines: a filter of every type at frequencies below, at and
\* above half the sample rates, and one complete command line with an
\* option left out, repeated or added, or with an operand
CommandLines ==
  {[opts |-> <<<<"i", Addr(input)>>, <<"o", Addr("out.wav")>>,
               <<"f", Addr(f)>>, <<"r", r>>>>
               \o (IF f = "peq" THEN <<<<"g", 6>>, <<"q", q>>>> ELSE << >>),
    operands |-> 0] :
     input \in {"in.wav", "missing.wav"}, f \in {"hpf", "lpf", "peq"},
     r \in {-6000, 0, 6000, 12000, 24000, 30000}, q \in {0, 2 * One}}
    \cup
  {[opts |-> SubSeq(c, 1, k - 1) \o x \o SubSeq(c, k + 1, Len(c)),
    operands |-> 0] :
     c \in {<<<<"i", Addr("in.wav")>>, <<"o", Addr("out.wav")>>,
              <<"f", Addr("hpf")>>, <<"r", 6000>>>>},
     k \in 1..4,
     x \in {<< >>, <<<<"h", NULL>>>>, <<<<"v", NULL>>>>, <<<<"?", NULL>>>>,
            <<<<"f", Addr("bpf")>>>>, <<<<"r", 30000>>>>}}
    \cup
  {[opts |-> <<<<"i", Addr("in.wav")>>, <<"o", Addr("out.wav")>>,
               <<"f", Addr("lpf")>>, <<"r", r>>>>,
    operands |-> 1] : r \in {6000, 30000}}

\* one run of the tool: one allocation, the fopen or one write fails, or
\* nothing does
Main ==
  /\ call.op = ""
  /\ \E c \in CommandLines,
        faults \in {<<TRUE, TRUE, TRUE, 4, TRUE>>,
                    <<FALSE, TRUE, TRUE, 4, TRUE>>,
                    <<TRUE, FALSE, TRUE, 4, TRUE>>,
                    <<TRUE, TRUE, FALSE, 4, TRUE>>,
                    <<TRUE, TRUE, TRUE, 4, FALSE>>}
                     \cup {<<TRUE, TRUE, TRUE, written, TRUE>> :
                             written \in 0..3} :
       \E m \in main(c.opts, c.operands, disk, faults) :
         /\ call' = [op |-> "main", opts |-> c.opts,
                     operands |-> c.operands, faults |-> faults,
                     before |-> disk, config |-> m.config,
                     exit |-> m.exit, calls |-> m.calls]
         /\ filter' = IF m.filter = NULL THEN filter ELSE Deref(m.filter)
         /\ disk' = m.files
         /\ UNCHANGED <<hist, used>>

\* The tool is run once on a directory that holds in.wav (a PCM file of
\* silence at 48 or 24 kHz, or a file read_wave gives up on) and may hold an
\* out.wav from before. The files hold silence because the arithmetic of the
\* filters is modelled in steps of FLT_MIN_PLUS/One and that of the files in
\* steps of 1/32768: 0.0 is the sample both represent.
InitCli ==
  /\ filter = JunkFilter("hpf")
  /\ call = NoIo
  /\ hist = NoHist
  /\ used = Unused
  /\ \E in \in {WavFile(bit_depth, num_channels, sample_rate,
                        [i \in 1..n |-> IF bit_depth = 8 THEN 128 ELSE 0]) :
                  bit_depth \in BitDepths, num_channels \in 1..2,
                  sample_rate \in {24000, 48000}, n \in 0..MaxSamples}
                 \cup {Addr([riff |-> NULL, chunks |-> << >>])},
        out \in {NULL, WavFile(16, 1, 48000, <<1>>)} :
       disk = [NoDisk EXCEPT !["in.wav"] = in, !["out.wav"] = out]

SpecCli == InitCli /\ [][Main]_vars

\* -------------------------------------------------------------- properties
\* C1, as stated: every biquad_process call returns exactly
\* a0*input + a1*xz1 + a2*xz2 - b1*yz1 - b2*yz2 of the values held before
\* the call, then yz2 = old yz1, yz1 = that value, xz2 = old xz1,
\* xz1 = input, and no coefficient changes.
C1_ReturnsDifferenceEquation ==
  [][call'.op = "biquad_process" =>
       LET bq    == filter[call'.lane]
           after == filter'[call'.lane]
           input == call'.input
           yn    == Mul(bq.a0, input) + Mul(bq.a1, bq.xz1)
                      + Mul(bq.a2, bq.xz2) - Mul(bq.b1, bq.yz1)
                      - Mul(bq.b2, bq.yz2)
       IN  /\ call'.ret = yn
           /\ after.yz2 = bq.yz1
           /\ after.yz1 = yn
           /\ after.xz2 = bq.xz1
           /\ after.xz1 = input
           /\ \A c \in CoefFields : after[c] = bq[c]]_vars

\* C1, amended: every biquad_process call returns the value of the
\* difference equation of the values held before the call, replaced by 0.0
\* when that value is not 0.0 and lies strictly between FLT_MIN_MINUS and
\* FLT_MIN_PLUS; then yz2 = old yz1, yz1 = the returned value,
\* xz2 = old xz1, xz1 = input, and no coefficient changes.
C1_ReturnsClampedDifferenceEquation ==
  [][call'.op = "biquad_process" =>
       LET bq    == filter[call'.lane]
           after == filter'[call'.lane]
           input == call'.input
           yn    == Mul(bq.a0, input) + Mul(bq.a1, bq.xz1)
                      + Mul(bq.a2, bq.xz2) - Mul(bq.b1, bq.yz1)
                      - Mul(bq.b2, bq.yz2)
           ret   == IF yn # 0 /\ FLT_MIN_MINUS < yn /\ yn < FLT_MIN_PLUS
                      THEN 0 ELSE yn
       IN  /\ call'.ret = ret
           /\ after.yz2 = bq.yz1
           /\ after.yz1 = ret
           /\ after.xz2 = bq.xz1
           /\ after.xz1 = input
           /\ \A c \in CoefFields : after[c] = bq[c]]_vars

\* a third biquad_process call on a lane whose inputs and outputs so far
\* were not 0.0: every term of the equation and every shift is visible
C1_Witness ==
  /\ call.op = "biquad_process"
  /\ Len(hist[call.lane].x) = 3
  /\ call.ret # 0
  /\ \A d \in DelayFields : filter[call.lane][d] # 0
  /\ filter[call.lane].yz1 # filter[call.lane].yz2
  /\ filter[call.lane].xz1 # filter[call.lane].xz2

\* C2: when the value yn of the difference equation satisfies
\* 0 < yn < FLT_MIN_PLUS or FLT_MIN_MINUS < yn < 0, biquad_process returns
\* 0.0 and stores 0.0 in yz1; when |yn| >= FLT_MIN_PLUS or yn = 0 it returns
\* and stores yn itself; so yz1 equals the returned value after every call.
C2_DenormalClamp ==
  [][call'.op = "biquad_process" =>
       LET bq    == filter[call'.lane]
           after == filter'[call'.lane]
           input == call'.input
           yn    == Mul(bq.a0, input) + Mul(bq.a1, bq.xz1)
                      + Mul(bq.a2, bq.xz2) - Mul(bq.b1, bq.yz1)
                      - Mul(bq.b2, bq.yz2)
       IN  /\ (0 < yn /\ yn < FLT_MIN_PLUS) \/ (FLT_MIN_MINUS < yn /\ yn < 0)
                => call'.ret = 0 /\ after.yz1 = 0
           /\ Abs(yn) >= FLT_MIN_PLUS \/ yn = 0
                => call'.ret = yn /\ after.yz1 = yn
           /\ after.yz1 = call'.ret]_vars

\* the first call on a flushed lane whose a0 * input is not 0.0 and lies
\* strictly inside the denormal range: 0.0 came back and went into yz1
C2_Witness ==
  /\ call.op = "biquad_process"
  /\ Len(hist[call.lane].x) = 1
  /\ Mul(filter[call.lane].a0, call.input) # 0
  /\ Abs(Mul(filter[call.lane].a0, call.input)) < FLT_MIN_PLUS
  /\ call.ret = 0
  /\ filter[call.lane].yz1 = 0

\* C3: from a flushed unit, after any number of biquad_process calls, xz1
\* and xz2 hold the most recent and the second most recent input, yz1 and
\* yz2 the most recent and the second most recent value returned, and 0.0
\* where fewer samples have been processed.
C3_HistoryInvariant ==
  \A lane \in Lanes :
    LET x  == hist[lane].x
        y  == hist[lane].y
        n  == Len(x)
        bq == filter[lane]
    IN  /\ Len(y) = n
        /\ bq.xz1 = IF n >= 1 THEN x[n] ELSE 0
        /\ bq.xz2 = IF n >= 2 THEN x[n - 1] ELSE 0
        /\ bq.yz1 = IF n >= 1 THEN y[n] ELSE 0
        /\ bq.yz2 = IF n >= 2 THEN y[n - 1] ELSE 0

\* three calls on one lane, the last two with different inputs and
\* different outputs, none on the other lane
C3_Witness ==
  \E lane \in Lanes : \E other \in Lanes \ {lane} :
    /\ Len(hist[lane].x) = 3
    /\ hist[lane].x[3] # hist[lane].x[2]
    /\ hist[lane].y[3] # hist[lane].y[2]
    /\ hist[lane].y[2] # 0
    /\ Len(hist[other].x) = 0

C5_DanglingSampleUnprocessed ==
  call.op = "process_buffer" /\ call.channel = 2 /\ call.length % 2 = 1 =>
    /\ Deref(call.out)[call.length] = Deref(call.data)[call.length]
    /\ \A k \in 1..Len(call.evals) : call.evals[k].idx # call.length - 1

\* C6: for a buffer of N > 2 channels, sample i is processed by lane 0 when
\* i mod N is even and by lane 1 when i mod N is odd, in increasing index
\* order, so the even-numbered channels share the delay state of lane 0 and
\* the odd-numbered channels that of lane 1.
C6_MultiChannelDispatch ==
  call.op = "process_buffer" /\ call.channel > 2 =>
    LET data == Deref(call.data)
        out  == Deref(call.out)
        ev   == call.evals
        n    == call.length
        N    == call.channel
        lane(i) == IF (i % N) % 2 = 0 THEN "left" ELSE "right"
        of(l)   == {i \in 0..(n - 1) : lane(i) = l}
        last(S) == CHOOSE i \in S : \A j \in S : j <= i
    IN  /\ Len(out) = n
        /\ Len(ev) = n
        /\ \A k \in 1..n :
             /\ ev[k].idx = k - 1
             /\ ev[k].lane = lane(k - 1)
             /\ ev[k].input = data[k]
             /\ out[k] = ev[k].out
        /\ \A l \in Lanes :
             /\ of(l) # {} => filter[l].xz1 = data[last(of(l)) + 1]
             /\ Cardinality(of(l)) >= 2 =>
                  filter[l].xz2 = data[last(of(l) \ {last(of(l))}) + 1]

\* a 3-channel buffer of four samples: the samples of channel 2 and of the
\* second frame's channel 0 follow each other through lane 0
C6_Witness ==
  /\ call.op = "process_buffer"
  /\ call.channel = 3
  /\ call.length = 4
  /\ call.evals[3].lane = "left"
  /\ call.evals[4].lane = "left"
  /\ Deref(call.data)[3] # Deref(call.data)[4]
  /\ Deref(call.data)[2] # Deref(call.data)[4]
  /\ filter.left.xz1 = Deref(call.data)[4]
  /\ filter.left.xz2 = Deref(call.data)[3]

\* C7: for a 1-channel buffer, process_buffer passes every sample through
\* lane 0 in index order and leaves lane 1, coefficients and delays, as it
\* was.
C7_MonoDispatch ==
  [][call'.op = "process_buffer" /\ call'.channel = 1 =>
       LET data == Deref(call'.data)
           ev   == call'.evals
           n    == call'.length
       IN  /\ filter'.right = filter.right
           /\ Len(ev) = n
           /\ \A k \in 1..n :
                /\ ev[k].idx = k - 1
                /\ ev[k].lane = "left"
                /\ ev[k].input = data[k]
           /\ filter'.left.xz1 = data[n]
           /\ filter'.left.xz2 = IF n >= 2 THEN data[n - 1]
                                          ELSE filter.left.xz1]_vars

\* a mono buffer processed after lane 1 had taken samples: both lanes hold
\* delay values that are not 0.0
C7_Witness ==
  /\ call.op = "process_buffer"
  /\ call.channel = 1
  /\ Len(hist.right.x) >= 1
  /\ filter.right.xz1 # 0
  /\ filter.right.yz1 # 0
  /\ filter.left.xz1 # 0
  /\ filter.left.yz1 # 0

\* C8, as stated: a process_buffer call on a buffer of N samples makes
\* exactly N recurrence evaluations, whatever the channel count.
C8_ExactlyLengthEvaluations ==
  call.op = "process_buffer" => Len(call.evals) = call.length

\* C9, as stated: every processed sample is written back as
\* process(input) * c0 + input * d0 with the c0 and d0 of the lane that
\* processed it, process(input) being the recurrence value after the
\* denormal clamp.
C9_WetDryMix ==
  call.op \in {"process_channel", "process_buffer"} =>
    \A k \in 1..Len(call.evals) :
      LET e       == call.evals[k]
          process == IF e.yn # 0 /\ FLT_MIN_MINUS < e.yn /\ e.yn < FLT_MIN_PLUS
                       THEN 0 ELSE e.yn
      IN  /\ e.out = Mul(process, filter[e.lane].c0)
                       + Mul(e.input, filter[e.lane].d0)
          /\ Deref(call.out)[e.idx + 1] = e.out

\* C10: after any init or update_coefficients call, whatever was processed
\* before, both lanes have c0 = 1.0, d0 = 0.0 and all four delays 0.0.
C10_DesignResetsLanes ==
  call.op \in {"init", "update_coefficients"} =>
    \A lane \in Lanes :
      /\ filter[lane].c0 = One
      /\ filter[lane].d0 = 0
      /\ \A d \in DelayFields : filter[lane][d] = 0

\* an update_coefficients call on a parametric filter that held delay values
\* other than 0.0
C10_Witness ==
  /\ call.op = "update_coefficients"
  /\ call.dirty
  /\ filter.kind = "peq"

\* C11: for a 2-channel buffer, the outputs at even indices and the left
\* unit's final state do not change when the odd-indexed samples and the
\* right unit's initial state are replaced by others, and the outputs at
\* odd indices and the right unit's final state do not change when the
\* even-indexed samples and the left unit's initial state are replaced.
C11_StereoIndependence ==
  call.op = "process_buffer" /\ call.channel = 2 =>
    LET pre  == Deref(call.hpf)
        data == Deref(call.data)
        out  == Deref(call.out)
        n    == call.length
        mine(lane) == {i \in 1..n : (i - 1) % 2 = IF lane = "left" THEN 0
                                                                   ELSE 1}
    IN  \A lane \in Lanes : \A other \in Lanes \ {lane} :
          \A data2 \in Arrays : \A unit2 \in {pre[other], JunkUnit} :
            Len(data2) = n /\ (\A i \in mine(lane) : data2[i] = data[i]) =>
              \A o2 \in {hpf_process_buffer(
                           Addr([pre EXCEPT ![other] = unit2]),
                           Addr(AudioBuffer(Addr(data2), 2)), TRUE)} :
                /\ Deref(o2.hpf)[lane] = filter[lane]
                /\ \A i \in mine(lane) : Deref(o2.data)[i] = out[i]

\* a stereo buffer of two frames whose samples differ between the
\* channels, after which both units hold a last output that is not 0.0
\* and the two units hold different states
C11_Witness ==
  /\ call.op = "process_buffer"
  /\ call.channel = 2
  /\ call.length = 4
  /\ Deref(call.data)[1] # Deref(call.data)[2]
  /\ Deref(call.data)[3] # Deref(call.data)[4]
  /\ filter.left.yz1 # 0
  /\ filter.right.yz1 # 0
  /\ filter.left.yz1 # filter.right.yz1

\* C12: for the same coefficients, the same initial delay state and the same
\* sample sequence, the accelerated kernel (per sample through process_fn,
\* per buffer through process_buffer_fn) yields the same output sequence and
\* the same final delay state xz1, xz2, yz1, yz2 as biquad_process called on
\* every sample in turn
C12_KernelsMatchScalar ==
  \A lane \in Lanes : \A jit \in JitOutcomes \ {NULL} : \A a \in Arrays :
    \A m \in {mlir_biquad_process_buffer(jit, Addr(filter[lane]), Addr(a),
                                          Len(a))} :
      \A s \in {ScalarReference([bq |-> filter[lane], data |-> a,
                                  evals |-> << >>], 0, Len(a))} :
        /\ Deref(m.data) = s.data
        /\ \A d \in DelayFields : Deref(m.bq)[d] = s.bq[d]

\* C13: a process_channel call with no filter, no array or length 0, a
\* process_buffer call with no filter, no buffer, a buffer without a data
\* array or a buffer of length 0, and a biquad_process call without a unit
\* change no sample, no delay value and no coefficient of either lane
C13_PreconditionFailuresAreNoOps ==
  [][(\/ /\ call'.op \in {"process_channel", "process_buffer"}
         /\ (call'.hpf = NULL \/ call'.data = NULL \/ call'.length = 0)
      \/ /\ call'.op = "biquad_process"
         /\ call'.hpf = NULL)
       => /\ filter' = filter
          /\ call'.out = call'.data
          /\ call'.evals = << >>]_vars

\* a process_channel call without an array, a process_buffer call on a
\* buffer without a data array and one on a buffer of length 0 have each
\* returned on a filter whose units hold delay values that are not 0.0
C13_Witness ==
  /\ call.dirty
  /\ call.hpf # NULL
  /\ \/ call.op = "process_channel" /\ call.data = NULL /\ call.length = 1
     \/ call.op = "process_buffer" /\ call.buffer # NULL /\ call.length = 0

C15_DesignIsHistoryFree ==
  call.op \in {"init", "update_coefficients"} =>
    \A lane \in Lanes :
      /\ \A op \in {"init", "update_coefficients"} :
           filter[lane] = Deref(DesignCall(filter.kind, op,
                                           JunkFilter(filter.kind),
                                           call.args))[lane]
      /\ filter[lane] = Deref(DesignCall(filter.kind, "update_coefficients",
                                         filter, call.args))[lane]

\* an update_coefficients call on an instance whose units held delay values
\* other than 0.0 and, in the left unit, coefficients written by the caller
C15_Witness ==
  /\ call.op = "update_coefficients"
  /\ call.dirty
  /\ call.poked

\* C16: at a gain of 0 dB (V0 = 1.0), for every K and every Q factor, the
\* boost formulas and the cut formulas of the parametric designer give the
\* same five coefficients, and they are the ones the designed units hold
C16_BoostCutAgreeAtZeroGain ==
  call.op \in {"init", "update_coefficients"} /\ call.args[3] = 0 =>
    LET K == TanPi(call.args[2], call.args[1])
        m == Intermediates(K, Pow10Db(0), call.args[4])
    IN  /\ Pow10Db(0) = One
        /\ Boost(m) = Cut(m)
        /\ \A lane \in Lanes : \A c \in DOMAIN Boost(m) :
             filter[lane][c] = Cut(m)[c]

\* a design at 0 dB with K = tan(pi/12) and Q = 0.707, where the feedforward
\* and feedback coefficients are not 0.0
C16_Witness ==
  /\ call.op = "update_coefficients"
  /\ call.args = <<48000, 4000, 0, (707 * One) \div 1000>>
  /\ filter.left.a0 = One
  /\ filter.left.a1 # 0
  /\ filter.left.a2 \notin {0, One}

\* C17: after an init or update_coefficients call the instance stores the
\* frequency (and, for the parametric filter, the gain and the Q factor) the
\* call was given, and the left and right units hold the same a0, a1, a2,
\* b1, b2
C17_ParametersStoredLanesAlike ==
  call.op \in {"init", "update_coefficients"} =>
    /\ filter.frequency = call.args[2]
    /\ filter.kind = "peq" =>
         filter.gain = call.args[3] /\ filter.q = call.args[4]
    /\ \A c \in {"a0", "a1", "a2", "b1", "b2"} :
         filter.left[c] = filter.right[c]

\* an update_coefficients call with +6 dB on a parametric filter one of
\* whose units held coefficients written by the caller
C17_Witness ==
  /\ call.op = "update_coefficients"
  /\ call.poked
  /\ filter.kind = "peq"
  /\ call.args[3] = 6

\* C18: a process_channel call passes the first length samples of the array,
\* in order, through one unit (the left one for channel 0, the right one for
\* every other channel value), writes each result times c0 plus the sample
\* times d0 in its place, and leaves the other unit and the samples past
\* length as they were
C18_ProcessChannelSingleLane ==
  call.op = "process_channel" =>
    LET pre   == Deref(call.hpf)
        data  == Deref(call.data)
        out   == Deref(call.out)
        n     == call.length
        lane  == IF call.channel = 0 THEN "left" ELSE "right"
        other == IF call.channel = 0 THEN "right" ELSE "left"
        ref   == ScalarReference([bq |-> pre[lane],
                                  data |-> SubSeq(data, 1, n),
                                  evals |-> << >>], 0, n)
    IN  /\ Len(call.evals) = n
        /\ \A k \in 1..n :
             /\ call.evals[k].lane = lane
             /\ call.evals[k].idx = k - 1
             /\ call.evals[k].input = data[k]
             /\ call.evals[k].yn = ref.data[k]
             /\ out[k] = Mul(ref.data[k], pre[lane].c0)
                            + Mul(data[k], pre[lane].d0)
        /\ filter[lane] = ref.bq
        /\ filter[other] = pre[other]
        /\ Len(out) = Len(data)
        /\ \A k \in (n + 1)..Len(data) : out[k] = data[k]

\* a process_channel call with channel 2 and a length shorter than the
\* array, on an instance whose left unit holds samples of an earlier call
C18_Witness ==
  /\ call.op = "process_channel"
  /\ call.channel = 2
  /\ call.length >= 1
  /\ Len(Deref(call.data)) > call.length
  /\ filter.left.xz1 # 0
  /\ filter.right.xz1 # 0

\* the unit is the one-sample delay the caller sets up
IsUnitDelay(bq) ==
  /\ bq.a0 = 0 /\ bq.a1 = One
  /\ bq.a2 = 0 /\ bq.b1 = 0 /\ bq.b2 = 0

\* C19, as stated: on a unit set up with biquad_init, a0 = 0, a1 = 1 and
\* the other recurrence coefficients 0, the first output is 0 and the n-th
\* output equals the (n-1)-th input, for every input sequence
C19_UnitDelay ==
  \A lane \in Lanes :
    IsUnitDelay(filter[lane]) =>
      \A n \in 1..Len(hist[lane].y) :
        hist[lane].y[n] = IF n = 1 THEN 0 ELSE hist[lane].x[n - 1]

\* C19, amended: on such a unit the first output is 0 and the n-th output
\* equals the (n-1)-th input, or 0.0 when that input lies strictly between
\* FLT_MIN_MINUS and FLT_MIN_PLUS
C19_UnitDelayOfNormalSamples ==
  \A lane \in Lanes :
    IsUnitDelay(filter[lane]) =>
      \A n \in 1..Len(hist[lane].y) :
        hist[lane].y[n] =
          IF n = 1 THEN 0
          ELSE IF FLT_MIN_MINUS < hist[lane].x[n - 1]
                    /\ hist[lane].x[n - 1] < FLT_MIN_PLUS
                 THEN 0
                 ELSE hist[lane].x[n - 1]

\* three samples have passed through a one-sample delay, the second of them
\* denormal
C19_Witness ==
  \E lane \in Lanes :
    /\ IsUnitDelay(filter[lane])
    /\ hist[lane].x = <<One, -(One \div 2), One>>
    /\ hist[lane].y = <<0, One, 0>>

C21_FlushKeepsCoefficients ==
  [][call'.op = "biquad_flush_delays" =>
       /\ \A d \in DelayFields : filter'[call'.lane][d] = 0
       /\ \A c \in CoefFields :
            filter'[call'.lane][c] = filter[call'.lane][c]
       /\ \A l \in Lanes \ {call'.lane} : filter'[l] = filter[l]]_vars

\* biquad_flush_delays on a unit that held output delays other than 0.0 and
\* holds a wet/dry mix written by the caller
C21_Witness ==
  /\ call.op = "biquad_flush_delays"
  /\ call.dirty
  /\ call.poked
  /\ filter[call.lane].d0 # 0

\* C26: without a design call in between, the scalar process_buffer on a
\* buffer A and then on a buffer B of the same channel count N leaves the
\* samples and both units as one call on A followed by B does, whenever the
\* length of A is a multiple of N (any length for mono)
C26_ChunkingInvariance ==
  call.op = "process_buffer" =>
    LET data == Deref(call.data)
        N    == call.channel
    IN  \A k \in 0..Len(data) :
          k % N = 0 =>
            \A o1 \in {hpf_process_buffer(
                          call.hpf,
                          Addr(AudioBuffer(Addr(SubSeq(data, 1, k)), N)),
                          TRUE)} :
              \A o2 \in {hpf_process_buffer(
                            o1.hpf,
                            Addr(AudioBuffer(
                                   Addr(SubSeq(data, k + 1, Len(data))), N)),
                            TRUE)} :
                /\ Deref(o1.data) \o Deref(o2.data) = Deref(call.out)
                /\ Deref(o2.hpf) = filter

\* a 3-channel buffer of four samples (one frame, then one sample) has been
\* processed and both units hold samples
C26_Witness ==
  /\ call.op = "process_buffer"
  /\ call.channel = 3
  /\ call.length = 4
  /\ filter.left.xz2 # 0
  /\ filter.right.xz1 # 0

\* C27: a biquad_process, process_channel or process_buffer call changes no
\* coefficient a0, a1, a2, b1, b2, c0, d0 of either unit and none of the
\* stored frequency, gain and Q: only delay values and samples change
C27_ProcessingKeepsShape ==
  [][call'.op \in {"biquad_process", "process_channel", "process_buffer"} =>
       /\ \A lane \in Lanes : \A c \in CoefFields :
            filter'[lane][c] = filter[lane][c]
       /\ filter'.frequency = filter.frequency
       /\ filter'.gain = filter.gain
       /\ filter'.q = filter.q
       /\ filter'.kind = filter.kind]_vars

\* a process_channel call after an earlier processing call has changed a
\* delay value of a parametric filter's unit
C27_Witness ==
  /\ call.op = "process_channel"
  /\ used.evals >= 2
  /\ filter.kind = "peq"
  /\ filter.gain = 6
  /\ filter[call.evals[1].lane].xz1 # Deref(call.hpf)[call.evals[1].lane].xz1

\* C28: a parametric filter designed at 0 dB has a0 = 1, a1 = b1 and
\* a2 = b2 in both units for every K and Q, and starting from flushed delays
\* every output of biquad_process equals its input as long as the inputs are
\* outside the denormal range
C28_FlatAtZeroGain ==
  filter.kind = "peq" /\ filter.gain = 0 =>
    /\ \A lane \in Lanes :
         /\ filter[lane].a0 = One
         /\ filter[lane].a1 = filter[lane].b1
         /\ filter[lane].a2 = filter[lane].b2
    /\ call.op = "process_channel" =>
         ((\A k \in 1..Len(call.evals) :
             call.evals[k].input = Underflow(call.evals[k].input))
          => \A k \in 1..Len(call.evals) :
               /\ call.evals[k].yn = call.evals[k].input
               /\ Deref(call.out)[k] = Deref(call.data)[k])

\* four different samples have passed through a unit designed at 0 dB with
\* K = tan(pi/3) and Q = 0.5, whose a1 and a2 are not 0.0
C28_Witness ==
  /\ call.op = "process_channel"
  /\ filter.gain = 0
  /\ filter.frequency = 16000
  /\ filter.q = One \div 2
  /\ filter.left.a1 # 0
  /\ filter.left.a2 # 0
  /\ Deref(call.data) = <<One, -(3 * One), 2 * One + One \div 2, One>>

\* C29: in every float64_to_pcm conversion, of every depth and of every
\* sample, the value computed from the clamped sample and converted to the
\* integer type lies inside the type's range: 0..255 at 8 bits,
\* -32768..32767 at 16 bits, the signed ranges at 24 and 32 bits.
C29_ScaledValueFitsType ==
  call.op \in {"float64_to_pcm", "write_wave"} =>
    \A i \in 1..Len(call.scaled) :
      /\ call.scaled[i] >= TypeMin(call.bit_depth)
      /\ call.scaled[i] <= TypeMax(call.bit_depth)

\* C25: when a 16-bit buffer that read_wave returned was written by
\* write_wave and the file is read again, the read succeeds unless an
\* allocation fails, and the buffer it returns has the sample rate, the
\* channel count, the bit depth and the length of the original and every
\* sample within 2/32768 of the original's.
C25_RoundTrip ==
  (/\ call.op = "read_wave"
   /\ call.written # NULL
   /\ call.filepath # NULL)
  => \A w \in {Deref(call.written)} :
       (call.filepath = w.filepath /\ Deref(w.buffer).bit_depth = 16)
       => \A original \in {Deref(w.buffer)} :
            /\ call.pcm_ok /\ call.buffer_ok => call.ret # NULL
            /\ call.ret # NULL =>
                 \A copy \in {Deref(call.ret)} :
                   /\ copy.sample_rate = original.sample_rate
                   /\ copy.channels = original.channels
                   /\ copy.bit_depth = original.bit_depth
                   /\ copy.length = original.length
                   /\ \A i \in 1..original.length :
                        Abs(Deref(copy.data)[i] - Deref(original.data)[i])
                          <= 2

C25_Witness ==
  /\ call.op = "read_wave"
  /\ call.filepath = Addr("out.wav")
  /\ call.written # NULL
  /\ call.ret # NULL
  /\ Deref(Deref(call.written).buffer).channels = 2
  /\ Deref(Deref(Deref(call.written).buffer).data) = <<-32768, 32767>>
  /\ Deref(Deref(call.ret).data) = <<-32767, 32766>>

\* C24: read_wave without a path returns NULL and reports
\* AUDIO_ERROR_INVALID_PARAMETER; read_wave of a path whose file cannot be
\* opened returns NULL and reports AUDIO_ERROR_FILE_NOT_FOUND; write_wave
\* without a path, without a buffer or with a buffer without data returns
\* AUDIO_ERROR_INVALID_PARAMETER, opens no file and leaves the files as they
\* were.
C24_ParameterAndOpenErrors ==
  /\ (call.op = "read_wave" /\ call.filepath = NULL) =>
       /\ call.ret = NULL
       /\ call.events = << >>
       /\ call.error # NULL =>
            call.reported = Addr("AUDIO_ERROR_INVALID_PARAMETER")
  /\ (call.op = "read_wave" /\ call.filepath # NULL) =>
       (call.before[Deref(call.filepath)] = NULL =>
          /\ call.ret = NULL
          /\ call.events = << >>
          /\ call.error # NULL =>
               call.reported = Addr("AUDIO_ERROR_FILE_NOT_FOUND"))
  /\ (call.op = "write_wave"
        /\ (IF call.filepath = NULL \/ call.buffer = NULL
              THEN TRUE ELSE Deref(call.buffer).data = NULL)) =>
       /\ call.ret = "AUDIO_ERROR_INVALID_PARAMETER"
       /\ call.events = << >>
       /\ disk = call.before

C24_Witness ==
  /\ call.op = "write_wave"
  /\ call.filepath = Addr("out.wav")
  /\ call.buffer # NULL
  /\ Deref(call.buffer).data = NULL
  /\ Deref(call.buffer).length = 2
  /\ call.ret = "AUDIO_ERROR_INVALID_PARAMETER"
  /\ disk["out.wav"] = NULL

\* C30: every read_wave call that opened the file closed it exactly once,
\* after opening it, and freed the PCM buffer exactly once if it allocated
\* one; the call returns a buffer exactly when the error it reports is
\* AUDIO_SUCCESS, and a call that returns NULL leaves no AudioBuffer
\* allocated.
C30_ReadWaveReleases ==
  call.op = "read_wave" =>
    LET at(e) == {i \in 1..Len(call.events) : call.events[i] = e}
    IN  /\ Cardinality(at("fopen")) <= 1
        /\ Cardinality(at("fclose")) = Cardinality(at("fopen"))
        /\ \A i \in at("fclose") : \E j \in at("fopen") : j < i
        /\ Cardinality(at("pcm_buffer_create")) <= 1
        /\ Cardinality(at("pcm_buffer_free"))
             = Cardinality(at("pcm_buffer_create"))
        /\ \A i \in at("pcm_buffer_free") :
             \E j \in at("pcm_buffer_create") : j < i
        /\ (call.filepath # NULL /\ call.events = << >>) =>
             call.before[Deref(call.filepath)] = NULL
        /\ call.error # NULL =>
             (call.ret # NULL <=> call.reported = Addr("AUDIO_SUCCESS"))
        /\ Cardinality(at("audio_buffer_create"))
             = IF call.ret = NULL THEN 0 ELSE 1

C30_Witness ==
  /\ call.op = "read_wave"
  /\ call.filepath = Addr("in.wav")
  /\ call.ret = NULL
  /\ call.reported = Addr("AUDIO_ERROR_READ_ERROR")
  /\ call.events = <<"fopen", "pcm_buffer_create", "pcm_buffer_free",
                     "fclose">>

C23_ExitCode ==
  (/\ call.op = "main"
   /\ \A k \in 1..Len(call.opts) : call.opts[k][1] \notin {"h", "v"})
  => \A c \in {call.config}, in \in {call.before["in.wav"]} :
       /\ call.exit =
            IF \/ \E k \in 1..Len(call.opts) :
                    \/ call.opts[k][1] = "?"
                    \/ /\ call.opts[k][1] = "f"
                       /\ Deref(call.opts[k][2]) \notin {"hpf", "lpf", "peq"}
               \/ call.operands > 0
               \/ c.input_path = NULL
               \/ c.output_path = NULL
               \/ c.filter = "FILTER_NONE"
               \/ c.frequency <= 0
               \/ c.filter = "FILTER_PEQ" /\ c.q <= 0
               \/ c.input_path # Addr("in.wav")
               \/ Deref(in).riff = NULL
               \/ ~call.faults[1]
               \/ ~call.faults[2]
               \/ 2 * c.frequency >=
                    Deref(Deref(in).chunks[1].body).sample_rate
               \/ ~call.faults[3]
               \/ call.faults[4] < 3
               \/ call.faults[4] < 4 /\ Deref(in).chunks[2].size > 0
               \/ ~call.faults[5]
              THEN 1 ELSE 0
       /\ call.exit = 0 =>
            /\ call.calls =
                 <<"validate_config", "read_wave">>
                   \o (CASE c.filter = "FILTER_HPF" ->
                               <<"hpf_init", "hpf_process_buffer">>
                          [] c.filter = "FILTER_LPF" ->
                               <<"lpf_init", "lpf_process_buffer">>
                          [] c.filter = "FILTER_PEQ" ->
                               <<"parametric_init",
                                 "parametric_process_buffer">>)
                   \o <<"write_wave", "audio_buffer_free">>
            /\ disk["out.wav"] = in
            /\ filter.frequency = c.frequency

C23_Witness ==
  /\ call.op = "main"
  /\ call.exit = 0
  /\ call.config.filter = "FILTER_PEQ"
  /\ call.config.frequency = 6000
  /\ call.before["in.wav"] = WavFile(8, 2, 24000, <<128, 128>>)
  /\ call.before["out.wav"] = WavFile(16, 1, 48000, <<1>>)
  /\ disk["out.wav"] = WavFile(8, 2, 24000, <<128, 128>>)
  /\ filter.kind = "peq"

=============================================================================
